---- MODULE Spec2Model ----
(***************************************************************************)
(* Model of the talking-jeff front-end controllers:                        *)
(*   ConversationController (src/unnamed/part_000, lines 1019-1220)        *)
(*   TTSController          (src/unnamed/part_000, lines 674-1009)         *)
(*   TalkingInvestigationApp (src/unnamed/part_001, lines 8-499)           *)
(* JavaScript is single threaded: every action below is one run of a       *)
(* handler from its entry (or from the resumption of an await) up to its   *)
(* next await or its end.                                                  *)
(***************************************************************************)
EXTENDS Integers, Sequences, FiniteSets, TLC

(***************************************************************************)
(* Program constants                                                       *)
(***************************************************************************)
\* CONFIG.UI.maxHistoryMessages
maxHistoryMessages == 50

\* the five in-character lines of getFallbackResponse
fallbackResponses == << "fallback-breeze", "fallback-coconuts", "fallback-waves",
                        "fallback-sun", "fallback-ocean" >>

(***************************************************************************)
(* Bounds of the model                                                     *)
(***************************************************************************)
\* number of addToHistory calls of one browser session
MaxAppends == 4
\* number of page reloads
MaxReloads == 1

\* lengths of the transcript a previous session left in local storage
PriorLens == {0, 1, maxHistoryMessages - 2, maxHistoryMessages - 1, maxHistoryMessages}

\* texts the user submits, replies the chat relay returns
UserTexts == {"Hello"}
\* data-quote texts of the quote buttons
Quotes == {"Hello"}
Replies == {"reply"}

\* outcomes of the fetch to /api/chat: 2xx, non-2xx (the throttling error
\* included), transport error
ChatOutcomes == {"ok", "http429", "http500", "network"}

(***************************************************************************)
(* State                                                                   *)
(***************************************************************************)
VARIABLES
    conversationHistory, \* ConversationController.conversationHistory
    isProcessing,        \* ConversationController.isProcessing
    storage,             \* localStorage item 'talkingIslandHistory'
    chatRequests,        \* outstanding fetches to /api/chat, one per suspended sendMessage
    clock,               \* wall clock read by new Date()
    lastResult,          \* how the most recently settled sendMessage call settled, and how many stop() calls ran meanwhile
    appendLog,           \* history variable: messages appended since the history was last empty or loaded
    appends,             \* history variable: number of addToHistory calls so far
    reloads,             \* history variable: number of page reloads
    saveStatus,          \* history variable: outcome of the last localStorage.setItem of the session
    lastOp,              \* history variable: the operation that ran last
    currentProvider,     \* TTSController.currentProvider
    isPlaying,           \* TTSController.isPlaying
    currentUtterance,    \* TTSController.currentUtterance: the speak call of the utterance, 0 for null
    callbackOwner,       \* the speak call that set onStartCallback and onEndCallback, 0 for undefined
    audioPlayer,         \* the audio element: the call whose blob is its src, and its playback state
    synthSupported,      \* whether window.speechSynthesis exists
    speakCalls,          \* one record per speak call: position, producers started, callbacks received
    stops,               \* history variable: number of stop() calls
    appIsProcessing,     \* TalkingInvestigationApp.isProcessing
    uiDisabled,          \* disabled attribute of send button, input, microphone and quote buttons
    stopSpeechBtnDisabled, \* disabled attribute of the stop-speech button
    loading,             \* CharacterController loading indicator shown
    isTalking,           \* CharacterController.isTalking
    activeTurns,         \* processMessage activations that have not finished, with their position
    turnCount,           \* history variable: number of processMessage activations
    idleEnabled,         \* CONFIG.CHARACTER.idleEnabled
    isIdle,              \* CharacterController.isIdle
    idleTimeout,         \* CharacterController.idleTimeout: null, or the handle of a pending or of a fired timer
    staleTimers,         \* pending idle timers whose handle idleTimeout no longer holds
    classList,           \* classes 'idle' and 'talking' of the character element
    useAvatar,           \* TalkingInvestigationApp.useAvatar
    heygen,              \* the HeyGenController: whether it was constructed, sessionId (0 for null), isConnected, isInitializing
    avatarConnected,     \* TalkingInvestigationApp.avatarConnected
    avatarFetches,       \* outstanding fetches to /api/heygen/create-session and /api/heygen/speak
    avatarTasks,         \* speak tasks the avatar vendor accepted and has not reported the end of
    presented,           \* history variable: per processMessage activation, how its reply was presented
    hits,                \* the rate limiter's store: per client, the requests counted in the current window
    windowLog,           \* history variable: per client, what became of each request of the current window
    gwRequests,          \* history variable: number of requests the backend received
    gwPending,           \* the handlers that await a vendor, with their position
    lastRequest,         \* history variable: the request the backend received last and its answer
    lastAnswer,          \* history variable: the answer a handler sent last after awaiting a vendor, since the last request arrived
    fnText,              \* the text given to truncateToMaxWords or cleanTextForTTS
    fnResult             \* the function applied to fnText last, its second argument and what it returned

convVars == << conversationHistory, isProcessing, storage, chatRequests, clock,
               lastResult, appendLog, appends, reloads, saveStatus >>

ttsVars == << currentProvider, isPlaying, currentUtterance, callbackOwner, audioPlayer,
              synthSupported, speakCalls, stops >>

charVars == << idleEnabled, isIdle, idleTimeout, staleTimers, classList >>

\* the avatar controller and what the application keeps about it
heygenVars == << useAvatar, heygen, avatarConnected >>
avatarVars == << heygenVars, avatarFetches, avatarTasks, presented >>

\* the backend
gatewayVars == << hits, windowLog, gwRequests, gwPending, lastRequest, lastAnswer >>

\* argument and result of the text functions
textVars == << fnText, fnResult >>

\* the state of the application outside the character controller
appFlags == << appIsProcessing, uiDisabled, stopSpeechBtnDisabled, loading,
               activeTurns, turnCount, avatarVars, gatewayVars, textVars >>

\* the state of the page
pageVars == << appIsProcessing, uiDisabled, stopSpeechBtnDisabled, loading, isTalking,
               activeTurns, turnCount, charVars, avatarVars >>

appVars == << pageVars, gatewayVars, textVars >>

vars == << convVars, ttsVars, appVars, lastOp >>

(***************************************************************************)
(* Sequence helpers (Array.prototype.slice, map)                           *)
(***************************************************************************)
\* arr.slice(-n)
sliceLast(arr, n) ==
    IF Len(arr) <= n THEN arr ELSE SubSeq(arr, Len(arr) - n + 1, Len(arr))

\* arr.slice(0, n)
sliceFirst(arr, n) ==
    IF Len(arr) <= n THEN arr ELSE SubSeq(arr, 1, n)

Range(s) == { s[i] : i \in 1..Len(s) }

(***************************************************************************)
(* Local storage and JSON                                                  *)
(***************************************************************************)
\* localStorage.getItem returns null
NoItem == [kind |-> "none", text |-> << >>]
\* an item that JSON.parse rejects, or that does not parse to an array
Corrupt == [kind |-> "corrupt", text |-> << >>]

\* JSON.stringify of an array of messages: the text is the list of the
\* objects, each the list of its member values in key order
stringify(h) ==
    [kind |-> "json",
     text |-> [i \in 1..Len(h) |-> << h[i].role, h[i].content, h[i].timestamp >>]]

\* JSON.parse of such a text
parse(item) ==
    [i \in 1..Len(item.text) |->
        [role |-> item.text[i][1], content |-> item.text[i][2], timestamp |-> item.text[i][3]]]

\* saveHistory: setItem may throw (quota, storage disabled); the error is
\* caught and logged, the item keeps its old value
saveHistory(item, h, writeOk) ==
    IF writeOk THEN stringify(h) ELSE item

\* loadHistory keeping only the context window of getContext
loadHistoryContextOnly(item) ==
    IF item.kind = "json" THEN sliceLast(parse(item), 10) ELSE << >>

\* loadHistory: the history the constructor ends with
loadHistory(item) ==
    IF item.kind = "json" THEN parse(item) ELSE << >>

(***************************************************************************)
(* ConversationController                                                  *)
(***************************************************************************)
Message(role, content, ts) == [role |-> role, content |-> content, timestamp |-> ts]

\* addToHistory without the trim
addToHistoryNoTrim(h, role, content, ts) ==
    Append(h, Message(role, content, ts))

\* addToHistory trimming with slice(0, max): keeps the oldest messages
addToHistoryKeepOldest(h, role, content, ts) ==
    LET pushed == Append(h, Message(role, content, ts))
    IN  IF Len(pushed) > maxHistoryMessages
        THEN sliceFirst(pushed, maxHistoryMessages)
        ELSE pushed

\* addToHistory: push, then trim to the last maxHistoryMessages
addToHistory(h, role, content, ts) ==
    LET pushed == Append(h, Message(role, content, ts))
    IN  IF Len(pushed) > maxHistoryMessages
        THEN sliceLast(pushed, maxHistoryMessages)
        ELSE pushed

\* sendMessage: the messages prepared for the API
apiMessages(h) == [i \in 1..Len(h) |-> [role |-> h[i].role, content |-> h[i].content]]

\* getFallbackResponse: Math.floor(Math.random() * length) picks index pick
getFallbackResponse(pick) == fallbackResponses[pick]

\* callClaudeAPI whose catch block rethrows
callClaudeAPIRethrow(outcome, reply, pick) ==
    IF outcome = "ok"
    THEN [threw |-> FALSE, value |-> reply]
    ELSE [threw |-> TRUE, value |-> outcome]

\* callClaudeAPI after the fetch settled: every failure is caught and
\* answered with a fallback line
callClaudeAPI(outcome, reply, pick) ==
    IF outcome = "ok"
    THEN [threw |-> FALSE, value |-> reply]
    ELSE [threw |-> FALSE, value |-> getFallbackResponse(pick)]

(***************************************************************************)
(* TTSController                                                           *)
(***************************************************************************)
\* number of speak calls made on the TTSController alone, of stop calls
MaxSpeaks == 1
MaxStops == 2
\* number of processMessage activations
MaxTurns == 2
\* number of 'play' events one speak call is given (the first play and the
\* plays after resume())
MaxStarts == 2

Providers == {"elevenlabs", "openai", "browser"}

\* outcomes of the fetch to /api/tts/<provider>
TtsOutcomes == {"ok", "http", "network"}

\* error codes of a SpeechSynthesisErrorEvent not caused by cancel()
SynthErrors == {"synthesis-failed"}

\* characters of the texts: code points of the stripped ranges, white space
EmojiChars == {"U+1F389", "U+2600"}
SpaceChars == {" ", "\n"}

\* the chain of replace(/[range]/gu, '') calls
stripEmoji(t) == SelectSeq(t, LAMBDA c : c \notin EmojiChars)

\* replace(/\s+/g, ' ')
RECURSIVE collapseSpaces(_)
collapseSpaces(t) ==
    IF t = << >> THEN << >>
    ELSE IF Head(t) \in SpaceChars
         THEN IF Len(t) >= 2 /\ t[2] \in SpaceChars
              THEN collapseSpaces(Tail(t))
              ELSE << " " >> \o collapseSpaces(Tail(t))
         ELSE << Head(t) >> \o collapseSpaces(Tail(t))

\* trim()
RECURSIVE trimStart(_)
trimStart(t) ==
    IF t # << >> /\ Head(t) \in SpaceChars THEN trimStart(Tail(t)) ELSE t

RECURSIVE trimEnd(_)
trimEnd(t) ==
    IF t # << >> /\ t[Len(t)] \in SpaceChars THEN trimEnd(SubSeq(t, 1, Len(t) - 1)) ELSE t

trim(t) == trimEnd(trimStart(t))

\* a cleanTextForTTS that collapses the white space before it strips
cleanTextStripLast(text) == trim(stripEmoji(collapseSpaces(text)))

cleanTextForTTS(text) == trim(collapseSpaces(stripEmoji(text)))

\* texts handed to speak
SpeakTexts == { << "T", " ", "U+1F389", " ", "m", "!" >>, << "o", "k" >> }

TtsInit ==
    /\ currentProvider \in Providers
    /\ isPlaying = FALSE
    /\ currentUtterance = 0
    /\ callbackOwner = 0
    /\ audioPlayer = [src |-> 0, state |-> "idle"]
    /\ synthSupported \in BOOLEAN
    /\ speakCalls = << >>
    /\ stops = 0

\* a controller that is never asked to speak
TtsIdle ==
    /\ currentProvider = "elevenlabs"
    /\ isPlaying = FALSE
    /\ currentUtterance = 0
    /\ callbackOwner = 0
    /\ audioPlayer = [src |-> 0, state |-> "idle"]
    /\ synthSupported = TRUE
    /\ speakCalls = << >>
    /\ stops = 0

\* onStartCallback / onEndCallback, when set, run the callbacks of the call
\* that set them
invokeOnStart(calls, owner) ==
    IF owner = 0 THEN calls ELSE [calls EXCEPT ![owner].onStart = @ + 1]

invokeOnEnd(calls, owner) ==
    IF owner = 0 THEN calls ELSE [calls EXCEPT ![owner].onEnd = @ + 1]

\* speechSynthesis.cancel(): a queued utterance is removed (error event
\* 'canceled'), a speaking one is cut off (error event 'interrupted')
cancelUtterance(u) ==
    CASE u = "queued" -> "canceled"
      [] u = "speaking" -> "interrupted"
      [] OTHER -> u

cancelAll(calls) == [i \in 1..Len(calls) |-> [calls[i] EXCEPT !.utterance = cancelUtterance(@)]]

\* onAudioError run for the failure of call id
onAudioError(calls, owner, id) ==
    invokeOnEnd([calls EXCEPT ![id].errorCallback = @ + 1], owner)

\* (stopsAtCall: the number of stop() calls made before this speak call)
NewCall(provider, raw, text) ==
    [provider |-> provider, raw |-> raw, text |-> text, pc |-> "start",
     primary |-> "none", producers |-> << >>, utterance |-> "none",
     asFallback |-> FALSE, localFailed |-> FALSE,
     onStart |-> 0, onEnd |-> 0, errorCallback |-> 0,
     stopsAtCall |-> stops]

\* speak after speakWithBrowser rejected with an error: in the try block the
\* catch hands it to onAudioError (the provider is 'browser'), in the catch
\* block the error escapes and speak rejects
browserRejected(calls, owner, id) ==
    IF calls[id].asFallback
    THEN [calls EXCEPT ![id].pc = "rejected"]
    ELSE onAudioError([calls EXCEPT ![id].pc = "done"], owner, id)

\* speakWithBrowser(text) called by call id up to speechSynthesis.speak;
\* gives the new speakCalls and currentUtterance
speakWithBrowser(calls, owner, cur, id, asFallback) ==
    LET entered == [calls EXCEPT ![id].producers = Append(@, [name |-> "browser", text |-> calls[id].text]),
                                 ![id].asFallback = asFallback]
    IN  IF ~synthSupported
        THEN [calls |-> browserRejected([entered EXCEPT ![id].localFailed = TRUE], owner, id),
              cur |-> cur, failed |-> ~asFallback]
        ELSE [calls |-> [cancelAll(entered) EXCEPT ![id].utterance = "queued", ![id].pc = "browser"],
              cur |-> id, failed |-> FALSE]

\* speak(text, onStart, onEnd) up to its first await
Speak(raw) ==
    /\ LET id == Len(speakCalls) + 1
           text == cleanTextForTTS(raw)
           calls == Append(speakCalls, NewCall(currentProvider, raw, text))
       IN  /\ callbackOwner' = id
           /\ IF currentProvider \in {"elevenlabs", "openai"}
              THEN /\ speakCalls' = [calls EXCEPT ![id].pc = "fetch",
                                       ![id].primary = "pending",
                                       ![id].producers = << [name |-> currentProvider, text |-> text] >>]
                   /\ UNCHANGED << currentUtterance, isPlaying >>
              ELSE LET r == speakWithBrowser(calls, id, currentUtterance, id, FALSE)
                   IN  /\ speakCalls' = r.calls
                       /\ currentUtterance' = r.cur
                       /\ isPlaying' = IF r.failed THEN FALSE ELSE isPlaying
    /\ UNCHANGED << currentProvider, audioPlayer, synthSupported, stops >>

\* speak of a remote provider whose switch case lacks its break: after
\* playAudio the browser case runs too
TtsFetchDoneFallThrough(id, outcome) ==
    /\ id \in 1..Len(speakCalls)
    /\ speakCalls[id].pc = "fetch"
    /\ LET settled == [speakCalls EXCEPT ![id].primary = outcome]
           r == speakWithBrowser(settled, callbackOwner, currentUtterance, id, outcome # "ok")
       IN  /\ speakCalls' = r.calls
           /\ currentUtterance' = r.cur
           /\ isPlaying' = isPlaying
           /\ audioPlayer' = IF outcome = "ok" THEN [src |-> id, state |-> "starting"] ELSE audioPlayer
    /\ UNCHANGED << currentProvider, callbackOwner, synthSupported, stops >>

\* the fetch of speakWithElevenLabs / speakWithOpenAI settles: a 2xx body is
\* played, anything else throws into the catch block of speak, which falls
\* back to speakWithBrowser
TtsFetchDone(id, outcome) ==
    /\ id \in 1..Len(speakCalls)
    /\ speakCalls[id].pc = "fetch"
    /\ LET settled == [speakCalls EXCEPT ![id].primary = outcome]
       IN  IF outcome = "ok"
           THEN /\ audioPlayer' = [src |-> id, state |-> "starting"]
                /\ speakCalls' = [settled EXCEPT ![id].pc = "done"]
                /\ UNCHANGED << currentUtterance, isPlaying >>
           ELSE LET r == speakWithBrowser(settled, callbackOwner, currentUtterance, id, TRUE)
                IN  /\ speakCalls' = r.calls
                    /\ currentUtterance' = r.cur
                    /\ UNCHANGED << audioPlayer, isPlaying >>
    /\ UNCHANGED << currentProvider, callbackOwner, synthSupported, stops >>

\* 'play' event of the audio element: onAudioStart
AudioPlay ==
    /\ audioPlayer.state \in {"starting", "resuming"}
    /\ audioPlayer' = [audioPlayer EXCEPT !.state = "playing"]
    /\ isPlaying' = TRUE
    /\ speakCalls' = invokeOnStart(speakCalls, callbackOwner)
    /\ UNCHANGED << currentProvider, currentUtterance, callbackOwner, synthSupported, stops >>

\* the promise of audioPlayer.play() rejects (autoplay refused, playback
\* aborted by pause(), source unusable): the catch of playAudio calls
\* onAudioError
AudioPlayRejected ==
    /\ audioPlayer.state \in {"starting", "aborted", "unusable"}
    /\ audioPlayer' = [audioPlayer EXCEPT !.state = "idle"]
    /\ isPlaying' = FALSE
    /\ speakCalls' = onAudioError(speakCalls, callbackOwner, audioPlayer.src)
    /\ UNCHANGED << currentProvider, currentUtterance, callbackOwner, synthSupported, stops >>

\* 'ended' event of the audio element: onAudioEnd
AudioEnded ==
    /\ audioPlayer.state = "playing"
    /\ audioPlayer' = [audioPlayer EXCEPT !.state = "idle"]
    /\ isPlaying' = FALSE
    /\ speakCalls' = invokeOnEnd(speakCalls, callbackOwner)
    /\ UNCHANGED << currentProvider, currentUtterance, callbackOwner, synthSupported, stops >>

\* 'error' event of the audio element: onAudioError; a play() promise still
\* pending is rejected as well (the one of resume() has no catch)
AudioError ==
    /\ audioPlayer.state \in {"starting", "playing", "resuming"}
    /\ audioPlayer' = [audioPlayer EXCEPT !.state = IF @ = "starting" THEN "unusable" ELSE "idle"]
    /\ isPlaying' = FALSE
    /\ speakCalls' = onAudioError(speakCalls, callbackOwner, audioPlayer.src)
    /\ UNCHANGED << currentProvider, currentUtterance, callbackOwner, synthSupported, stops >>

\* utterance.onstart
UtteranceStart(id) ==
    /\ id \in 1..Len(speakCalls)
    /\ speakCalls[id].utterance = "queued"
    /\ isPlaying' = TRUE
    /\ speakCalls' = invokeOnStart([speakCalls EXCEPT ![id].utterance = "speaking"], callbackOwner)
    /\ UNCHANGED << currentProvider, currentUtterance, callbackOwner, audioPlayer,
                    synthSupported, stops >>

\* utterance.onend: the promise of speakWithBrowser resolves and speak returns
UtteranceEnd(id) ==
    /\ id \in 1..Len(speakCalls)
    /\ speakCalls[id].utterance = "speaking"
    /\ isPlaying' = FALSE
    /\ currentUtterance' = 0
    /\ speakCalls' = invokeOnEnd([speakCalls EXCEPT ![id].utterance = "ended", ![id].pc = "done"],
                                 callbackOwner)
    /\ UNCHANGED << currentProvider, callbackOwner, audioPlayer, synthSupported, stops >>

\* the error codes utterance id can report now
utteranceErrors(u) ==
    CASE u \in {"queued", "speaking"} -> SynthErrors
      [] u \in {"canceled", "interrupted"} -> {u}
      [] OTHER -> {}

\* utterance.onerror: every error but 'canceled' rejects the promise of
\* speakWithBrowser; after 'canceled' the promise never settles
UtteranceError(id, err) ==
    /\ id \in 1..Len(speakCalls)
    /\ err \in utteranceErrors(speakCalls[id].utterance)
    /\ currentUtterance' = 0
    /\ isPlaying' = FALSE
    /\ LET gone == [speakCalls EXCEPT ![id].utterance = "failed",
                                      ![id].localFailed = @ \/ err \in SynthErrors]
       IN  speakCalls' = IF err = "canceled" THEN gone
                         ELSE browserRejected(gone, callbackOwner, id)
    /\ UNCHANGED << currentProvider, callbackOwner, audioPlayer, synthSupported, stops >>

\* audioPlayer.pause() followed by currentTime = 0: a play() promise still
\* pending is rejected
pausePlayer(a) ==
    CASE a.state = "starting" -> [a EXCEPT !.state = "aborted"]
      [] a.state \in {"playing", "paused", "resuming"} -> [a EXCEPT !.state = "idle"]
      [] OTHER -> a

\* stop()
Stop ==
    /\ stops < MaxStops
    /\ stops' = stops + 1
    /\ audioPlayer' = pausePlayer(audioPlayer)
    /\ isPlaying' = FALSE
    /\ currentUtterance' = 0
    /\ speakCalls' = invokeOnEnd(IF synthSupported THEN cancelAll(speakCalls) ELSE speakCalls,
                                 callbackOwner)
    /\ UNCHANGED << currentProvider, callbackOwner, synthSupported >>

\* pause(): audioPlayer.pause() when the element is not paused, the position
\* is kept; a play() promise still pending is rejected.  speechSynthesis.pause()
\* runs no handler of the controller and sets none of its fields.
Pause ==
    /\ audioPlayer' =
          CASE audioPlayer.state = "starting" -> [audioPlayer EXCEPT !.state = "aborted"]
            [] audioPlayer.state \in {"playing", "resuming"} -> [audioPlayer EXCEPT !.state = "paused"]
            [] OTHER -> audioPlayer
    /\ UNCHANGED << currentProvider, isPlaying, currentUtterance, callbackOwner,
                    synthSupported, speakCalls, stops >>

\* resume(): audioPlayer.play() on the element paused by pause(); its promise
\* has no catch.  The element dispatches 'play' each time it leaves the
\* paused state.  speechSynthesis.resume() runs no handler of the controller.
Resume ==
    /\ audioPlayer.state = "paused" =>
          (callbackOwner # 0 => speakCalls[callbackOwner].onStart < MaxStarts)
    /\ audioPlayer' = IF audioPlayer.state = "paused"
                      THEN [audioPlayer EXCEPT !.state = "resuming"]
                      ELSE audioPlayer
    /\ UNCHANGED << currentProvider, isPlaying, currentUtterance, callbackOwner,
                    synthSupported, speakCalls, stops >>

\* the session of a previous page load left n messages behind
PriorTranscript(n) ==
    [i \in 1..n |-> Message(IF i % 2 = 1 THEN "user" ELSE "assistant", "earlier", i)]

\* the clock reading at construction, later than every stored timestamp
StartClock == maxHistoryMessages + 1

\* the controller constructed over one of the given stored items
ConvInitFrom(items) ==
    /\ storage \in items
    /\ conversationHistory = loadHistory(storage)
    /\ isProcessing = FALSE
    /\ chatRequests = << >>
    /\ clock = StartClock
    /\ lastResult = [kind |-> "none", value |-> "", outcome |-> "", arg |-> "",
                     appended |-> << >>, stopsDuring |-> 0]
    /\ appendLog = conversationHistory
    /\ appends = 0
    /\ reloads = 0
    /\ saveStatus = "none"
    /\ lastOp = "constructor"

\* the environment the whole application is run in: the stored item it is
\* started over, the configured CONFIG.TTS.provider, the outcomes of the
\* chat fetch and of localStorage.setItem, the fallback lines drawn
AppStoredItems == {NoItem}
AppProviders == {"elevenlabs"}
AppChatOutcomes == {"ok", "http429"}
AppWrites == {TRUE}
AppPicks == {3}

StoredItems == {NoItem, Corrupt} \cup { stringify(PriorTranscript(n)) : n \in PriorLens }

\* one addToHistory call with its saveHistory
Add(role, content, writeOk) ==
    /\ conversationHistory' = addToHistory(conversationHistory, role, content, clock)
    /\ storage' = saveHistory(storage, conversationHistory', writeOk)
    /\ saveStatus' = IF writeOk THEN "ok" ELSE "failed"
    /\ appendLog' = Append(appendLog, Message(role, content, clock))
    /\ appends' = appends + 1
    /\ clock' = clock + 1

\* sendMessage preparing the API messages before the user message is added
SendMessageRequestFirst(userMessage, writeOk, turn) ==
    /\ ~isProcessing
    /\ appends + 2 <= MaxAppends
    /\ isProcessing' = TRUE
    /\ Add("user", userMessage, writeOk)
    /\ chatRequests' = Append(chatRequests,
            [arg |-> userMessage,
             messages |-> apiMessages(conversationHistory),
             turn |-> turn,
             stopsAtIssue |-> stops,
             appended |-> << [role |-> "user", content |-> userMessage] >>])
    /\ lastOp' = "sendMessage"
    /\ UNCHANGED << lastResult, reloads >>

\* sendMessage up to the await of the fetch in callClaudeAPI
SendMessageAccepted(userMessage, writeOk, turn) ==
    /\ ~isProcessing
    /\ appends + 2 <= MaxAppends
    /\ isProcessing' = TRUE
    /\ Add("user", userMessage, writeOk)
    /\ chatRequests' = Append(chatRequests,
            [arg |-> userMessage,
             messages |-> apiMessages(conversationHistory'),
             turn |-> turn,
             stopsAtIssue |-> stops,
             appended |-> << [role |-> "user", content |-> userMessage] >>])
    /\ lastOp' = "sendMessage"
    /\ UNCHANGED << lastResult, reloads >>

\* sendMessage with the busy check inside the try block: finally clears the flag
SendMessageRejectedInTry ==
    /\ isProcessing
    /\ isProcessing' = FALSE
    /\ lastResult' = [kind |-> "rejected", value |-> "Already processing a message",
                      outcome |-> "", arg |-> "", appended |-> << >>, stopsDuring |-> 0]
    /\ lastOp' = "sendMessage.rejected"
    /\ UNCHANGED << conversationHistory, storage, chatRequests, clock,
                    appendLog, appends, reloads, saveStatus >>

\* sendMessage while a call is unresolved: the throw precedes the try block
SendMessageRejected ==
    /\ isProcessing
    /\ lastResult' = [kind |-> "rejected", value |-> "Already processing a message",
                      outcome |-> "", arg |-> "", appended |-> << >>, stopsDuring |-> 0]
    /\ lastOp' = "sendMessage.rejected"
    /\ UNCHANGED << conversationHistory, isProcessing, storage, chatRequests, clock,
                    appendLog, appends, reloads, saveStatus >>

RemoveAt(s, i) == SubSeq(s, 1, i - 1) \o SubSeq(s, i + 1, Len(s))

\* the fetch of request i settles and sendMessage runs to its end
ChatResponse(i, outcome, reply, pick, writeOk) ==
    /\ i \in 1..Len(chatRequests)
    /\ LET req == chatRequests[i]
           res == callClaudeAPI(outcome, reply, pick)
       IN  /\ chatRequests' = RemoveAt(chatRequests, i)
           /\ IF res.threw
              THEN /\ lastResult' = [kind |-> "rejected", value |-> res.value,
                                     outcome |-> outcome, arg |-> req.arg,
                                     appended |-> req.appended,
                                     stopsDuring |-> stops - req.stopsAtIssue]
                   /\ UNCHANGED << conversationHistory, storage, saveStatus, appendLog,
                                   appends, clock >>
              ELSE /\ Add("assistant", res.value, writeOk)
                   /\ lastResult' = [kind |-> "resolved", value |-> res.value,
                                     outcome |-> outcome, arg |-> req.arg,
                                     appended |-> Append(req.appended,
                                         [role |-> "assistant", content |-> res.value]),
                                     stopsDuring |-> stops - req.stopsAtIssue]
           /\ isProcessing' = FALSE
           /\ lastOp' = "sendMessage.settled"
           /\ UNCHANGED reloads

\* clearHistory without the saveHistory call
ClearHistoryNoSave(writeOk) ==
    /\ conversationHistory' = << >>
    /\ appendLog' = << >>
    /\ lastOp' = "clearHistory"
    /\ saveStatus' = IF writeOk THEN "ok" ELSE "failed"
    /\ UNCHANGED << storage, isProcessing, chatRequests, clock, lastResult, appends, reloads >>

\* clearHistory
ClearHistory(writeOk) ==
    /\ conversationHistory' = << >>
    /\ storage' = saveHistory(storage, conversationHistory', writeOk)
    /\ saveStatus' = IF writeOk THEN "ok" ELSE "failed"
    /\ appendLog' = << >>
    /\ lastOp' = "clearHistory"
    /\ UNCHANGED << isProcessing, chatRequests, clock, lastResult, appends, reloads >>

\* page reload: the pending continuations are gone, a new controller is
\* constructed and loads the stored item
Reload ==
    /\ reloads < MaxReloads
    /\ reloads' = reloads + 1
    /\ conversationHistory' = loadHistory(storage)
    /\ isProcessing' = FALSE
    /\ chatRequests' = << >>
    /\ appendLog' = conversationHistory'
    /\ saveStatus' = "none"
    /\ lastOp' = "constructor"
    /\ UNCHANGED << storage, clock, lastResult, appends >>

(***************************************************************************)
(* CharacterController (src/js/config.js)                                  *)
(***************************************************************************)
\* number of idle timers pending at once whose handle was overwritten
MaxTimers == 2

\* the fields of the controller as one value, so that calls compose
charState ==
    [isTalking |-> isTalking, isIdle |-> isIdle, idleTimeout |-> idleTimeout,
     staleTimers |-> staleTimers, classList |-> classList]

setCharacter(c) ==
    /\ isTalking' = c.isTalking
    /\ isIdle' = c.isIdle
    /\ idleTimeout' = c.idleTimeout
    /\ staleTimers' = c.staleTimers
    /\ classList' = c.classList
    /\ UNCHANGED idleEnabled

\* startIdleAnimation: returns at once unless CONFIG.CHARACTER.idleEnabled
startIdleAnimation(c) ==
    IF ~idleEnabled THEN c
    ELSE [c EXCEPT !.isIdle = TRUE, !.classList = (@ \cup {"idle"}) \ {"talking"}]

\* stopIdleAnimation: clearTimeout of the handle held, a no-op for a timer
\* that fired
stopIdleAnimation(c) ==
    [c EXCEPT !.isIdle = FALSE, !.classList = @ \ {"idle"}, !.idleTimeout = "null"]

startTalking(c) ==
    [stopIdleAnimation(c) EXCEPT !.isTalking = TRUE, !.classList = @ \cup {"talking"}]

\* stopTalking: the new timer's handle replaces the one held, which is not
\* cleared
stopTalking(c) ==
    [c EXCEPT !.isTalking = FALSE,
              !.classList = @ \ {"talking"},
              !.staleTimers = IF c.idleTimeout = "pending" THEN @ + 1 ELSE @,
              !.idleTimeout = "pending"]

\* the constructor and init(): startIdleAnimation is the only call that
\* touches these fields
CharInit ==
    /\ isIdle = TRUE
    /\ idleTimeout = "null"
    /\ staleTimers = 0
    /\ classList = IF idleEnabled THEN {"idle"} ELSE {}

\* CONFIG.CHARACTER.idleDelay has elapsed for the timer whose handle is held
IdleTimerFires ==
    /\ idleTimeout = "pending"
    /\ setCharacter(startIdleAnimation([charState EXCEPT !.idleTimeout = "fired"]))

\* CONFIG.CHARACTER.idleDelay has elapsed for a timer set by an earlier
\* stopTalking
StaleTimerFires ==
    /\ staleTimers > 0
    /\ setCharacter(startIdleAnimation([charState EXCEPT !.staleTimers = @ - 1]))

(***************************************************************************)
(* TalkingInvestigationApp                                                 *)
(***************************************************************************)
AppFlagsInit ==
    /\ appIsProcessing = FALSE
    /\ uiDisabled = FALSE
    /\ stopSpeechBtnDisabled = TRUE
    /\ loading = FALSE
    /\ isTalking = FALSE
    /\ activeTurns = << >>
    /\ turnCount = 0

\* the application with CONFIG.AVATAR.enabled = enabled: init() constructs
\* the HeyGenController only then, and CONFIG.AVATAR.autoConnect is false
AvatarInit(enabled) ==
    /\ useAvatar = enabled
    /\ heygen = [exists |-> enabled, sessionId |-> 0, accessToken |-> 0,
                 isConnected |-> FALSE, isInitializing |-> FALSE]
    /\ avatarConnected = FALSE
    /\ avatarFetches = << >>
    /\ avatarTasks = << >>
    /\ presented = << >>

\* the application as shipped: CONFIG.CHARACTER.idleEnabled and
\* CONFIG.AVATAR.enabled are false
\* no text function has been applied
TextIdle ==
    /\ fnText = << >>
    /\ fnResult = [op |-> "none", k |-> 0, out |-> << >>]

\* the clients the limiter tells apart (its key is the address of the client)
Clients == {"c1", "c2"}

\* no handler has answered
NoAnswer ==
    [route |-> "", body |-> "", vendor |-> "none", vendorStatus |-> 0,
     vendorBody |-> "", vendorText |-> << >>, second |-> "none",
     failedAt |-> "none", status |-> 0, error |-> "", response |-> << >>,
     sent |-> 0, ends |-> 0, threw |-> FALSE, chunksIn |-> << >>, chunksOut |-> << >>,
     secondBody |-> "", useAvatar |-> "absent"]

\* the backend after start-up: the limiter's store is empty
GatewayInit ==
    /\ hits = [c \in Clients |-> 0]
    /\ windowLog = [c \in Clients |-> << >>]
    /\ gwRequests = 0
    /\ gwPending = << >>
    /\ lastRequest = [client |-> "", route |-> "", body |-> "", n |-> 0, count |-> 0, status |-> 0,
                      error |-> "", handlerRan |-> FALSE, vendorCalled |-> FALSE]
    /\ lastAnswer = NoAnswer

AppInit ==
    /\ AppFlagsInit
    /\ GatewayInit
    /\ TextIdle
    /\ idleEnabled = FALSE
    /\ CharInit
    /\ AvatarInit(FALSE)

ConvInit == ConvInitFrom(StoredItems) /\ TtsIdle /\ AppInit

ConvSend ==
    /\ \E m \in UserTexts, w \in BOOLEAN : SendMessageAccepted(m, w, 0)
    /\ UNCHANGED << ttsVars, appVars >>
ConvReject == SendMessageRejected /\ UNCHANGED << ttsVars, appVars >>
ConvResponse ==
    /\ \E i \in 1..Len(chatRequests), o \in ChatOutcomes, r \in Replies,
          p \in 1..Len(fallbackResponses), w \in BOOLEAN :
           ChatResponse(i, o, r, p, w)
    /\ UNCHANGED << ttsVars, appVars >>
ConvClear == (\E w \in BOOLEAN : ClearHistory(w)) /\ UNCHANGED << ttsVars, appVars >>
ConvReload == Reload /\ UNCHANGED << ttsVars, appVars >>

TtsSpeak ==
    /\ Len(speakCalls) < MaxSpeaks
    /\ \E t \in SpeakTexts : Speak(t)
    /\ lastOp' = "speak"
    /\ UNCHANGED << convVars, appVars >>
TtsFetch ==
    /\ \E id \in 1..Len(speakCalls), o \in TtsOutcomes : TtsFetchDone(id, o)
    /\ lastOp' = "speak.fetched"
    /\ UNCHANGED << convVars, appVars >>
TtsAudioPlay == AudioPlay /\ lastOp' = "audio.play" /\ UNCHANGED << convVars, appVars >>
TtsAudioPlayRejected ==
    AudioPlayRejected /\ lastOp' = "audio.rejected" /\ UNCHANGED << convVars, appVars >>
TtsAudioEnded == AudioEnded /\ lastOp' = "audio.ended" /\ UNCHANGED << convVars, appVars >>
TtsAudioError == AudioError /\ lastOp' = "audio.error" /\ UNCHANGED << convVars, appVars >>
TtsUtteranceStart ==
    /\ \E id \in 1..Len(speakCalls) : UtteranceStart(id)
    /\ lastOp' = "utterance.start"
    /\ UNCHANGED << convVars, appVars >>
TtsUtteranceEnd ==
    /\ \E id \in 1..Len(speakCalls) : UtteranceEnd(id)
    /\ lastOp' = "utterance.end"
    /\ UNCHANGED << convVars, appVars >>
TtsUtteranceError ==
    /\ \E id \in 1..Len(speakCalls), e \in SynthErrors \cup {"canceled", "interrupted"} :
           UtteranceError(id, e)
    /\ lastOp' = "utterance.error"
    /\ UNCHANGED << convVars, appVars >>
TtsStop == Stop /\ lastOp' = "stop" /\ UNCHANGED << convVars, appVars >>
TtsPause == Pause /\ lastOp' = "pause" /\ UNCHANGED << convVars, appVars >>
TtsResume == Resume /\ lastOp' = "resume" /\ UNCHANGED << convVars, appVars >>

InitTTS == ConvInitFrom({NoItem}) /\ TtsInit /\ AppInit

NextTTS ==
    \/ TtsSpeak \/ TtsFetch \/ TtsAudioPlay \/ TtsAudioPlayRejected \/ TtsAudioEnded
    \/ TtsAudioError \/ TtsUtteranceStart \/ TtsUtteranceEnd \/ TtsUtteranceError \/ TtsStop
    \/ TtsPause \/ TtsResume

SpecTTS == InitTTS /\ [][NextTTS]_vars

NextConv == ConvSend \/ ConvReject \/ ConvResponse \/ ConvClear \/ ConvReload

SpecConv == ConvInit /\ [][NextConv]_vars
(***************************************************************************)
(* TalkingInvestigationApp: the turn                                       *)
(***************************************************************************)
\* the characters of the texts that reach speak: the fallback lines carry
\* emoji, the relay's reply here does not
textOf(content) ==
    IF content \in Range(fallbackResponses)
    THEN << "T", " ", "U+1F389", " ", "m", "!" >>
    ELSE << "o", "k" >>

\* the callbacks speakResponse hands to tts.speak, applied when a step of the
\* TTSController invoked them: onStart calls character.startTalking, onEnd
\* calls character.stopTalking and setUIDisabled(false)
\* (a call made in this step had received no callback before it)
startFired ==
    \E i \in 1..Len(speakCalls') :
        speakCalls'[i].onStart > (IF i <= Len(speakCalls) THEN speakCalls[i].onStart ELSE 0)
endFired ==
    \E i \in 1..Len(speakCalls') :
        speakCalls'[i].onEnd > (IF i <= Len(speakCalls) THEN speakCalls[i].onEnd ELSE 0)

SpeechCallbacks ==
    /\ setCharacter(IF endFired THEN stopTalking(charState)
                    ELSE IF startFired THEN startTalking(charState) ELSE charState)
    /\ stopSpeechBtnDisabled' =
          IF endFired THEN TRUE ELSE IF startFired THEN FALSE ELSE stopSpeechBtnDisabled
    /\ uiDisabled' = IF endFired THEN FALSE ELSE uiDisabled

\* processMessage up to the await of conversation.sendMessage.  When the
\* conversation controller is busy sendMessage throws, and the catch and
\* finally blocks of processMessage run in the same step.
processMessage(message) ==
    /\ turnCount < MaxTurns
    /\ turnCount' = turnCount + 1
    /\ IF isProcessing
       THEN /\ SendMessageRejected
            /\ loading' = FALSE
            /\ uiDisabled' = FALSE
            /\ appIsProcessing' = FALSE
            /\ UNCHANGED activeTurns
       ELSE /\ \E w \in AppWrites : SendMessageAccepted(message, w, turnCount')
            /\ loading' = TRUE
            /\ uiDisabled' = TRUE
            /\ appIsProcessing' = TRUE
            /\ activeTurns' = Append(activeTurns, [id |-> turnCount', pc |-> "chat", response |-> ""])
    /\ presented' = Append(presented,
            [avatar |-> "none", ttsSpeaks |-> 0, call |-> 0, avatarSpeaks |-> 0,
             chatFetches |-> Len(SelectSeq(chatRequests', LAMBDA q : q.turn = turnCount'))])
    /\ UNCHANGED << ttsVars, stopSpeechBtnDisabled, isTalking, charVars, gatewayVars, textVars, heygenVars,
                    avatarFetches, avatarTasks >>

\* a submit that the application refuses: a toast, nothing else
submitRefused ==
    /\ lastOp' = "submit.refused"
    /\ UNCHANGED << convVars, ttsVars, appVars >>

\* handleSend without the isProcessing check
HandleSendUnguarded(message) == processMessage(message)

\* handleSend with a non-empty input: send button, Enter key, final
\* voice-recognition result
HandleSend(message) ==
    IF appIsProcessing THEN submitRefused ELSE processMessage(message)

\* handleQuote: a quote button, which setUIDisabled(true) disables
HandleQuote(quote) ==
    /\ ~uiDisabled
    /\ IF appIsProcessing THEN submitRefused ELSE processMessage(quote)

turnIndex(id) == CHOOSE k \in 1..Len(activeTurns) : activeTurns[k].id = id

\* a callClaudeAPI that sends the request again when it is throttled
ChatSettledRetries(i, outcome, reply, pick, writeOk) ==
    /\ i \in 1..Len(chatRequests)
    /\ \E k \in 1..Len(activeTurns) : activeTurns[k].id = chatRequests[i].turn
    /\ IF outcome = "http429" /\ presented[chatRequests[i].turn].chatFetches < 2
       THEN /\ chatRequests' = Append(RemoveAt(chatRequests, i), chatRequests[i])
            /\ presented' = [presented EXCEPT ![chatRequests[i].turn].chatFetches = @ + 1]
            /\ lastOp' = "sendMessage.retry"
            /\ UNCHANGED << conversationHistory, isProcessing, storage, clock, lastResult,
                            appendLog, appends, reloads, saveStatus, activeTurns, loading,
                            uiDisabled, appIsProcessing >>
       ELSE /\ ChatResponse(i, outcome, reply, pick, writeOk)
            /\ UNCHANGED presented
            /\ LET k == turnIndex(chatRequests[i].turn)
               IN  IF lastResult'.kind = "resolved"
                   THEN /\ activeTurns' = [activeTurns EXCEPT ![k].pc = "bubble",
                                                              ![k].response = lastResult'.value]
                        /\ loading' = FALSE
                        /\ UNCHANGED << uiDisabled, appIsProcessing >>
                   ELSE /\ activeTurns' = RemoveAt(activeTurns, k)
                        /\ loading' = FALSE
                        /\ uiDisabled' = FALSE
                        /\ appIsProcessing' = FALSE
    /\ UNCHANGED << ttsVars, stopSpeechBtnDisabled, isTalking, charVars, turnCount,
                    heygenVars, avatarFetches, avatarTasks, gatewayVars, textVars >>

\* the chat fetch of a turn settles: sendMessage returns and processMessage
\* runs up to the await of character.updateSpeechBubble
ChatSettled(i, outcome, reply, pick, writeOk) ==
    /\ i \in 1..Len(chatRequests)
    /\ \E k \in 1..Len(activeTurns) : activeTurns[k].id = chatRequests[i].turn
    /\ ChatResponse(i, outcome, reply, pick, writeOk)
    /\ LET k == turnIndex(chatRequests[i].turn)
       IN  IF lastResult'.kind = "resolved"
           THEN /\ activeTurns' = [activeTurns EXCEPT ![k].pc = "bubble",
                                                      ![k].response = lastResult'.value]
                /\ loading' = FALSE
                /\ UNCHANGED << uiDisabled, appIsProcessing >>
           ELSE /\ activeTurns' = RemoveAt(activeTurns, k)
                /\ loading' = FALSE
                /\ uiDisabled' = FALSE
                /\ appIsProcessing' = FALSE
    /\ UNCHANGED << ttsVars, stopSpeechBtnDisabled, isTalking, charVars, turnCount,
                    avatarVars, gatewayVars, textVars >>

\* HeyGenController.isAvailable
isAvailable(h) == h.isConnected /\ h.sessionId # 0

\* speakResponse reaching tts.speak for the reply of turn id: the call is not
\* awaited
speakWithTTS(id, text, why) ==
    /\ Speak(text)
    /\ SpeechCallbacks
    /\ presented' = [presented EXCEPT ![id].avatar = why,
                                      ![id].ttsSpeaks = @ + 1,
                                      ![id].call = Len(speakCalls) + 1]

\* a processMessage without its finally block: the application's flag stays
\* set after speakResponse has returned
BubbleTypedNoFinally(k) ==
    /\ k \in 1..Len(activeTurns)
    /\ activeTurns[k].pc = "bubble"
    /\ IF useAvatar /\ heygen.exists /\ isAvailable(heygen)
       THEN /\ avatarFetches' = Append(avatarFetches, [kind |-> "speak", turn |-> activeTurns[k].id])
            /\ activeTurns' = [activeTurns EXCEPT ![k].pc = "avatar"]
            /\ presented' = [presented EXCEPT ![activeTurns[k].id].avatar = "pending",
                                              ![activeTurns[k].id].avatarSpeaks = @ + 1]
            /\ lastOp' = "avatar.speak"
            /\ UNCHANGED << ttsVars, appIsProcessing, uiDisabled, stopSpeechBtnDisabled,
                            isTalking, charVars >>
       ELSE /\ speakWithTTS(activeTurns[k].id, textOf(activeTurns[k].response), "unavailable")
            /\ activeTurns' = RemoveAt(activeTurns, k)
            /\ lastOp' = "speak"
            /\ UNCHANGED << avatarFetches, appIsProcessing >>
    /\ UNCHANGED << convVars, loading, turnCount, heygenVars, avatarTasks, gatewayVars, textVars >>

\* the typing animation of updateSpeechBubble is over and speakResponse
\* runs: with an available avatar up to the await of the fetch in
\* heygen.speak, otherwise through tts.speak, after which processMessage
\* ends in its finally block
BubbleTyped(k) ==
    /\ k \in 1..Len(activeTurns)
    /\ activeTurns[k].pc = "bubble"
    /\ IF useAvatar /\ heygen.exists /\ isAvailable(heygen)
       THEN /\ avatarFetches' = Append(avatarFetches, [kind |-> "speak", turn |-> activeTurns[k].id])
            /\ activeTurns' = [activeTurns EXCEPT ![k].pc = "avatar"]
            /\ presented' = [presented EXCEPT ![activeTurns[k].id].avatar = "pending",
                                              ![activeTurns[k].id].avatarSpeaks = @ + 1]
            /\ lastOp' = "avatar.speak"
            /\ UNCHANGED << ttsVars, appIsProcessing, uiDisabled, stopSpeechBtnDisabled,
                            isTalking, charVars >>
       ELSE /\ speakWithTTS(activeTurns[k].id, textOf(activeTurns[k].response), "unavailable")
            /\ activeTurns' = RemoveAt(activeTurns, k)
            /\ appIsProcessing' = FALSE
            /\ lastOp' = "speak"
            /\ UNCHANGED avatarFetches
    /\ UNCHANGED << convVars, loading, turnCount, heygenVars, avatarTasks, gatewayVars, textVars >>

\* stopSpeech that also gives up the outstanding chat request
StopSpeechCancelsChat ==
    /\ ~stopSpeechBtnDisabled
    /\ Stop
    /\ setCharacter(stopTalking(IF endFired THEN stopTalking(charState) ELSE charState))
    /\ stopSpeechBtnDisabled' = TRUE
    /\ uiDisabled' = FALSE
    /\ lastOp' = "stop"
    /\ chatRequests' = << >>
    /\ isProcessing' = FALSE
    /\ appIsProcessing' = FALSE
    /\ activeTurns' = SelectSeq(activeTurns, LAMBDA t : t.pc # "chat")
    /\ UNCHANGED << conversationHistory, storage, clock, lastResult, appendLog, appends,
                    reloads, saveStatus, loading, turnCount, avatarVars, gatewayVars, textVars >>

\* stopSpeech: the stop-speech button, enabled by the onStart callback and
\* disabled by the onEnd callback and by stopSpeech.  tts.stop() runs the onEnd callback
\* of the last speak call, then stopSpeech calls stopTalking itself.
StopSpeech ==
    /\ ~stopSpeechBtnDisabled
    /\ Stop
    /\ setCharacter(stopTalking(IF endFired THEN stopTalking(charState) ELSE charState))
    /\ stopSpeechBtnDisabled' = TRUE
    /\ uiDisabled' = FALSE
    /\ lastOp' = "stop"
    /\ UNCHANGED << convVars, appIsProcessing, loading, activeTurns, turnCount, avatarVars, gatewayVars, textVars >>

\* clearChat: the clear-chat button
ClearChat ==
    /\ \E w \in AppWrites : ClearHistory(w)
    /\ UNCHANGED << ttsVars, appVars >>

\* what a step of the TTSController leaves alone in the application
speechFrame ==
    UNCHANGED << convVars, appIsProcessing, loading, activeTurns, turnCount, avatarVars, gatewayVars, textVars >>

AppSend == \E m \in UserTexts : HandleSend(m)
AppQuote == \E m \in Quotes : HandleQuote(m)
AppChat ==
    \E i \in 1..Len(chatRequests), o \in AppChatOutcomes, r \in Replies,
       p \in AppPicks, w \in AppWrites :
        ChatSettled(i, o, r, p, w)
AppBubble == \E k \in 1..Len(activeTurns) : BubbleTyped(k)
AppFetch ==
    /\ \E id \in 1..Len(speakCalls), o \in TtsOutcomes : TtsFetchDone(id, o)
    /\ SpeechCallbacks /\ lastOp' = "speak.fetched" /\ speechFrame
AppAudioPlay == AudioPlay /\ SpeechCallbacks /\ lastOp' = "audio.play" /\ speechFrame
AppAudioPlayRejected ==
    AudioPlayRejected /\ SpeechCallbacks /\ lastOp' = "audio.rejected" /\ speechFrame
AppAudioEnded == AudioEnded /\ SpeechCallbacks /\ lastOp' = "audio.ended" /\ speechFrame
AppAudioError == AudioError /\ SpeechCallbacks /\ lastOp' = "audio.error" /\ speechFrame
AppUtteranceStart ==
    /\ \E id \in 1..Len(speakCalls) : UtteranceStart(id)
    /\ SpeechCallbacks /\ lastOp' = "utterance.start" /\ speechFrame
AppUtteranceEnd ==
    /\ \E id \in 1..Len(speakCalls) : UtteranceEnd(id)
    /\ SpeechCallbacks /\ lastOp' = "utterance.end" /\ speechFrame
AppUtteranceError ==
    /\ \E id \in 1..Len(speakCalls), e \in SynthErrors \cup {"canceled", "interrupted"} :
           UtteranceError(id, e)
    /\ SpeechCallbacks /\ lastOp' = "utterance.error" /\ speechFrame

Init ==
    /\ ConvInitFrom(AppStoredItems)
    /\ TtsInit
    /\ currentProvider \in AppProviders
    /\ AppInit

\* the idle timers of the character
AppIdleTimer ==
    /\ IdleTimerFires /\ lastOp' = "idleTimer"
    /\ UNCHANGED << convVars, ttsVars, appFlags >>
AppStaleTimer ==
    /\ StaleTimerFires /\ lastOp' = "idleTimer"
    /\ UNCHANGED << convVars, ttsVars, appFlags >>

Next ==
    \/ AppSend \/ AppQuote \/ AppChat \/ AppBubble \/ StopSpeech \/ ClearChat
    \/ AppFetch \/ AppAudioPlay \/ AppAudioPlayRejected \/ AppAudioEnded \/ AppAudioError
    \/ AppUtteranceStart \/ AppUtteranceEnd \/ AppUtteranceError
    \/ AppIdleTimer \/ AppStaleTimer

Spec == Init /\ [][Next]_vars

(***************************************************************************)
(* The application with the avatar enabled (CONFIG.AVATAR.enabled = true)  *)
(***************************************************************************)
\* outcomes of the fetches to /api/heygen/*: 2xx, non-2xx, transport error
AvatarOutcomes == {"ok", "http", "network"}

\* what a step of the HeyGenController leaves alone
avatarFrame == UNCHANGED << convVars, loading, turnCount, useAvatar, gatewayVars, textVars >>

\* click on the avatar status indicator: connectAvatar and createSession up
\* to the await of the fetch, unless connected or connecting
AvatarStatusClick ==
    /\ useAvatar /\ heygen.exists
    /\ IF ~avatarConnected /\ ~heygen.isInitializing
       THEN /\ heygen' = [heygen EXCEPT !.isInitializing = TRUE]
            /\ avatarFetches' = Append(avatarFetches, [kind |-> "create", turn |-> 0])
       ELSE UNCHANGED << heygen, avatarFetches >>
    /\ lastOp' = "avatar.click"
    /\ UNCHANGED << ttsVars, appIsProcessing, uiDisabled, stopSpeechBtnDisabled, isTalking,
                    charVars, activeTurns, avatarConnected, avatarTasks, presented >>
    /\ avatarFrame

\* the fetch of createSession settles: on 2xx the session is stored,
\* setupWebRTC runs and onConnected is called; otherwise onError is called
\* and connectAvatar catches the error
AvatarSessionSettled(i, outcome) ==
    /\ i \in 1..Len(avatarFetches)
    /\ avatarFetches[i].kind = "create"
    /\ avatarFetches' = RemoveAt(avatarFetches, i)
    /\ IF outcome = "ok"
       THEN /\ heygen' = [heygen EXCEPT !.sessionId = 1, !.accessToken = 1,
                                        !.isConnected = TRUE,
                                        !.isInitializing = FALSE]
            /\ avatarConnected' = TRUE
       ELSE /\ heygen' = [heygen EXCEPT !.isInitializing = FALSE]
            /\ UNCHANGED avatarConnected
    /\ lastOp' = "avatar.session"
    /\ UNCHANGED << ttsVars, appIsProcessing, uiDisabled, stopSpeechBtnDisabled, isTalking,
                    charVars, activeTurns, avatarTasks, presented >>
    /\ avatarFrame

\* onconnectionstatechange with 'disconnected' or 'failed': handleDisconnection
AvatarDisconnected ==
    /\ heygen.isConnected
    /\ heygen' = [heygen EXCEPT !.isConnected = FALSE]
    /\ avatarConnected' = FALSE
    /\ lastOp' = "avatar.disconnected"
    /\ UNCHANGED << ttsVars, appIsProcessing, uiDisabled, stopSpeechBtnDisabled, isTalking,
                    charVars, activeTurns, avatarFetches, avatarTasks, presented >>
    /\ avatarFrame

\* speakResponse that goes on to tts.speak after the avatar accepted the text
AvatarSpeakSettledNoReturn(i, outcome) ==
    /\ i \in 1..Len(avatarFetches)
    /\ avatarFetches[i].kind = "speak"
    /\ LET id == avatarFetches[i].turn
           k == turnIndex(id)
       IN  /\ avatarFetches' = RemoveAt(avatarFetches, i)
           /\ activeTurns' = RemoveAt(activeTurns, k)
           /\ appIsProcessing' = FALSE
           /\ speakWithTTS(id, textOf(activeTurns[k].response),
                           IF outcome = "ok" THEN "ok" ELSE "failed")
           /\ avatarTasks' = IF outcome = "ok"
                             THEN Append(avatarTasks, [turn |-> id, state |-> "accepted"])
                             ELSE avatarTasks
    /\ lastOp' = IF outcome = "ok" THEN "avatar.spoke" ELSE "speak"
    /\ UNCHANGED << heygen, avatarConnected >>
    /\ avatarFrame

\* the fetch of heygen.speak settles.  On 2xx speak calls onSpeakingStart and
\* returns true, and speakResponse returns; otherwise it calls onError and
\* returns false, and speakResponse falls through to tts.speak.  Either way
\* processMessage then ends in its finally block.
AvatarSpeakSettled(i, outcome) ==
    /\ i \in 1..Len(avatarFetches)
    /\ avatarFetches[i].kind = "speak"
    /\ LET id == avatarFetches[i].turn
           k == turnIndex(id)
       IN  /\ avatarFetches' = RemoveAt(avatarFetches, i)
           /\ activeTurns' = RemoveAt(activeTurns, k)
           /\ appIsProcessing' = FALSE
           /\ IF outcome = "ok"
              THEN /\ setCharacter(startTalking(charState))
                   /\ avatarTasks' = Append(avatarTasks, [turn |-> id, state |-> "accepted"])
                   /\ presented' = [presented EXCEPT ![id].avatar = "ok"]
                   /\ UNCHANGED << ttsVars, uiDisabled, stopSpeechBtnDisabled >>
              ELSE /\ speakWithTTS(id, textOf(activeTurns[k].response), "failed")
                   /\ UNCHANGED avatarTasks
    /\ lastOp' = IF outcome = "ok" THEN "avatar.spoke" ELSE "speak"
    /\ UNCHANGED << heygen, avatarConnected >>
    /\ avatarFrame

\* data channel message 'speaking_start' for task j: onSpeakingStart
AvatarSpeakingStart(j) ==
    /\ j \in 1..Len(avatarTasks)
    /\ avatarTasks[j].state = "accepted"
    /\ avatarTasks' = [avatarTasks EXCEPT ![j].state = "speaking"]
    /\ setCharacter(startTalking(charState))
    /\ lastOp' = "avatar.start"
    /\ UNCHANGED << ttsVars, appIsProcessing, uiDisabled, stopSpeechBtnDisabled,
                    activeTurns, heygen, avatarConnected, avatarFetches, presented >>
    /\ avatarFrame

\* data channel message 'speaking_end' for task j: onSpeakingEnd
AvatarSpeakingEnd(j) ==
    /\ j \in 1..Len(avatarTasks)
    /\ avatarTasks[j].state = "speaking"
    /\ avatarTasks' = RemoveAt(avatarTasks, j)
    /\ setCharacter(stopTalking(charState))
    /\ uiDisabled' = FALSE
    /\ lastOp' = "avatar.end"
    /\ UNCHANGED << ttsVars, appIsProcessing, stopSpeechBtnDisabled,
                    activeTurns, heygen, avatarConnected, avatarFetches, presented >>
    /\ avatarFrame

AvClick == AvatarStatusClick
AvSession == \E i \in 1..Len(avatarFetches), o \in AvatarOutcomes : AvatarSessionSettled(i, o)
AvDisconnected == AvatarDisconnected
AvSpeak == \E i \in 1..Len(avatarFetches), o \in AvatarOutcomes : AvatarSpeakSettled(i, o)
AvStart == \E j \in 1..Len(avatarTasks) : AvatarSpeakingStart(j)
AvEnd == \E j \in 1..Len(avatarTasks) : AvatarSpeakingEnd(j)

\* the chat relay answers
AvChat ==
    \E i \in 1..Len(chatRequests), r \in Replies, p \in AppPicks, w \in AppWrites :
        ChatSettled(i, "ok", r, p, w)

\* either value of CONFIG.AVATAR.enabled, with the browser as CONFIG.TTS.provider
InitAvatar ==
    /\ ConvInitFrom({NoItem})
    /\ TtsInit
    /\ currentProvider = "browser"
    /\ synthSupported = TRUE
    /\ AppFlagsInit
    /\ idleEnabled = FALSE
    /\ CharInit
    /\ \E enabled \in BOOLEAN : AvatarInit(enabled)
    /\ GatewayInit
    /\ TextIdle

NextAvatar ==
    \/ AppSend \/ AvChat \/ AppBubble \/ StopSpeech
    \/ AvClick \/ AvSession \/ AvDisconnected \/ AvSpeak \/ AvStart \/ AvEnd
    \/ AppUtteranceStart \/ AppUtteranceEnd \/ AppUtteranceError
    \/ AppIdleTimer \/ AppStaleTimer

SpecAvatar == InitAvatar /\ [][NextAvatar]_vars

(***************************************************************************)
(* The avatar session: every connect trigger, closeSession                 *)
(***************************************************************************)
\* closeSession calls whose fetch is outstanding at once
MaxCloses == 1

\* CONFIG.AVATAR.autoConnect = true: initializeAvatar has called
\* connectAvatar, and createSession waits for its fetch
AvatarInitAutoConnect ==
    /\ useAvatar = TRUE
    /\ heygen = [exists |-> TRUE, sessionId |-> 0, accessToken |-> 0,
                 isConnected |-> FALSE, isInitializing |-> TRUE]
    /\ avatarConnected = FALSE
    /\ avatarFetches = << [kind |-> "create", turn |-> 0] >>
    /\ avatarTasks = << >>
    /\ presented = << >>

\* click on the connect avatar button: connectAvatar with no test of its
\* own, and createSession up to the await of the fetch unless it is
\* initializing
AvatarConnectClick ==
    /\ useAvatar /\ heygen.exists
    /\ IF ~heygen.isInitializing
       THEN /\ heygen' = [heygen EXCEPT !.isInitializing = TRUE]
            /\ avatarFetches' = Append(avatarFetches, [kind |-> "create", turn |-> 0])
       ELSE UNCHANGED << heygen, avatarFetches >>
    /\ lastOp' = "avatar.connect"
    /\ UNCHANGED << ttsVars, appIsProcessing, uiDisabled, stopSpeechBtnDisabled, isTalking,
                    charVars, activeTurns, avatarConnected, avatarTasks, presented >>
    /\ avatarFrame

\* the close fetches that are outstanding
closing == SelectSeq(avatarFetches, LAMBDA q : q.kind = "close")

\* closeSession up to the await of its fetch; without a session it returns
AvatarCloseSession ==
    /\ heygen.exists
    /\ Len(closing) < MaxCloses
    /\ avatarFetches' = IF heygen.sessionId # 0
                        THEN Append(avatarFetches, [kind |-> "close", turn |-> 0])
                        ELSE avatarFetches
    /\ lastOp' = "avatar.close"
    /\ UNCHANGED << ttsVars, appIsProcessing, uiDisabled, stopSpeechBtnDisabled, isTalking,
                    charVars, activeTurns, heygen, avatarConnected, avatarTasks, presented >>
    /\ avatarFrame

\* the fetch of closeSession settles.  The response is not looked at: with
\* any status the cleanup runs; a transport error skips it and is logged.
AvatarCloseSettled(i, outcome) ==
    /\ i \in 1..Len(avatarFetches)
    /\ avatarFetches[i].kind = "close"
    /\ avatarFetches' = RemoveAt(avatarFetches, i)
    /\ heygen' = IF outcome = "network" THEN heygen
                 ELSE [heygen EXCEPT !.sessionId = 0, !.accessToken = 0, !.isConnected = FALSE]
    /\ lastOp' = "avatar.closed"
    /\ UNCHANGED << ttsVars, appIsProcessing, uiDisabled, stopSpeechBtnDisabled, isTalking,
                    charVars, activeTurns, avatarConnected, avatarTasks, presented >>
    /\ avatarFrame

AvConnect == AvatarConnectClick
AvClose == AvatarCloseSession
AvClosed == \E i \in 1..Len(avatarFetches), o \in AvatarOutcomes : AvatarCloseSettled(i, o)

\* CONFIG.AVATAR.enabled = true, CONFIG.AVATAR.autoConnect either way
InitSession ==
    /\ ConvInitFrom({NoItem})
    /\ TtsInit
    /\ currentProvider = "browser"
    /\ synthSupported = TRUE
    /\ AppFlagsInit
    /\ idleEnabled = FALSE
    /\ CharInit
    /\ AvatarInit(TRUE) \/ AvatarInitAutoConnect
    /\ GatewayInit
    /\ TextIdle

NextSession ==
    \/ AppSend \/ AvChat \/ AppBubble
    \/ AvClick \/ AvConnect \/ AvSession \/ AvDisconnected \/ AvClose \/ AvClosed
    \/ AvSpeak \/ AvStart \/ AvEnd
    \/ AppUtteranceStart \/ AppUtteranceEnd \/ AppUtteranceError

SpecSession == InitSession /\ [][NextSession]_vars

\* the createSession fetches that are outstanding
creating == SelectSeq(avatarFetches, LAMBDA q : q.kind = "create")

\* C34: at most one avatar session is open or being opened.  A create-session
\* request is sent only when the controller holds no connected session and no
\* createSession is initializing; at most one such request is outstanding;
\* and the initializing flag is set exactly while one is outstanding.
C34_OneSessionAtATime ==
    /\ [][Len(creating') > Len(creating)
            => ~heygen.isConnected /\ ~heygen.isInitializing]_vars
    /\ [](Len(creating) <= 1)
    /\ [](heygen.isInitializing <=> Len(creating) = 1)

\* the speak fetches that are outstanding
speaking == SelectSeq(avatarFetches, LAMBDA q : q.kind = "speak")

\* C35: when closeSession has finished the controller holds no session,
\* whatever the outcome of its fetch; and while the controller holds no
\* session no speak request is sent and no speaking callback runs.
C35_ClosedSessionIsGone ==
    /\ [][lastOp' = "avatar.closed"
            => /\ heygen'.sessionId = 0 /\ heygen'.accessToken = 0
               /\ ~heygen'.isConnected /\ ~isAvailable(heygen')]_vars
    /\ [][~isAvailable(heygen) /\ avatarTasks = << >>
            => /\ Len(speaking') <= Len(speaking)
               /\ lastOp' \notin {"avatar.speak", "avatar.start", "avatar.end"}]_vars

(***************************************************************************)
(* One turn after the other on every path of presentation                  *)
(***************************************************************************)
\* CONFIG.AVATAR.enabled and CONFIG.TTS.provider either way, with and
\* without window.speechSynthesis
InitTurn ==
    /\ ConvInitFrom({NoItem})
    /\ TtsInit
    /\ currentProvider \in {"elevenlabs", "browser"}
    /\ AppFlagsInit
    /\ idleEnabled = FALSE
    /\ CharInit
    /\ \E enabled \in BOOLEAN : AvatarInit(enabled)
    /\ GatewayInit
    /\ TextIdle

\* the events of the audio element and of the utterance
TurnAudioStarts == AppAudioPlay \/ AppAudioPlayRejected
TurnAudioStops == AppAudioEnded \/ AppAudioError
TurnUtterance == AppUtteranceStart \/ AppUtteranceEnd \/ AppUtteranceError

NextTurn ==
    \/ AppSend \/ AppChat \/ AppBubble
    \/ AvClick \/ AvSession \/ AvDisconnected \/ AvSpeak \/ AvStart \/ AvEnd
    \/ AppFetch \/ TurnAudioStarts \/ TurnAudioStops \/ TurnUtterance

SpecTurn == InitTurn /\ [][NextTurn]_vars

\* every network call settles, the typing animation ends, and every
\* playback event that is due arrives
TurnFairness ==
    /\ WF_vars(AppChat) /\ WF_vars(AppBubble) /\ WF_vars(AppFetch)
    /\ WF_vars(AvSession) /\ WF_vars(AvSpeak) /\ WF_vars(AvStart) /\ WF_vars(AvEnd)
    /\ WF_vars(TurnAudioStarts) /\ WF_vars(TurnAudioStops) /\ WF_vars(TurnUtterance)

SpecTurnLive == SpecTurn /\ TurnFairness

(***************************************************************************)
(* Properties of the turns, checked under SpecTurn and SpecTurnLive        *)
(***************************************************************************)
\* the producers of a speak call that are remote
remoteProducers(c) == SelectSeq(c.producers, LAMBDA q : q.name # "browser")

\* C21: nothing is sent twice: at most one chat request per turn, at most one
\* remote TTS request per speak call, at most one avatar speak request per
\* reply, whatever the outcome of the request was.
C21_NoAutomaticRetry ==
    /\ \A t \in 1..Len(presented) :
          /\ presented[t].chatFetches <= 1
          /\ presented[t].avatarSpeaks <= 1
          /\ Len(SelectSeq(chatRequests, LAMBDA q : q.turn = t)) <= presented[t].chatFetches
          /\ Len(SelectSeq(avatarFetches, LAMBDA q : q.kind = "speak" /\ q.turn = t))
                <= presented[t].avatarSpeaks
    /\ \A i \in 1..Len(speakCalls) : Len(remoteProducers(speakCalls[i])) <= 1

\* a throttled chat request, a failed avatar speak request and a failed
\* remote TTS request have each been sent once
C21_Witness ==
    /\ lastResult.outcome = "http429"
    /\ \E t \in 1..Len(presented) :
          /\ presented[t].chatFetches = 1
          /\ presented[t].avatar = "failed" /\ presented[t].avatarSpeaks = 1
          /\ presented[t].call # 0
          /\ speakCalls[presented[t].call].primary \in {"http", "network"}
          /\ Len(remoteProducers(speakCalls[presented[t].call])) = 1

\* C30: whenever the controls are disabled they are enabled again later,
\* provided every network call settles and every playback event arrives.
C30_ControlsReenabled == uiDisabled ~> ~uiDisabled

\* C31: every accepted turn returns the turn state to idle.  Whenever one of
\* the two processing flags is set, later both are clear; when no turn is under way
\* both are clear; and a submit made when no turn is under way is neither
\* refused by the application nor rejected by sendMessage.
C31_TurnReturnsToIdle ==
    /\ (appIsProcessing \/ isProcessing) ~> (~appIsProcessing /\ ~isProcessing)
    /\ [](activeTurns = << >> => ~appIsProcessing /\ ~isProcessing /\ chatRequests = << >>)
    /\ [][activeTurns = << >> => lastOp' \notin {"submit.refused", "sendMessage.rejected"}]_vars

\* a second turn has been accepted after the first one ended with a
\* fallback line
C31_Witness ==
    /\ turnCount = 2
    /\ Len(activeTurns) = 1 /\ activeTurns[1].id = 2
    /\ appIsProcessing /\ isProcessing
    /\ lastResult.kind = "resolved" /\ lastResult.outcome = "http429"

(***************************************************************************)
(* Properties of the avatar and speech paths, checked under SpecAvatar     *)
(***************************************************************************)
\* the turns whose reply was passed to tts.speak
spokenTurns == {t \in 1..Len(presented) : presented[t].ttsSpeaks = 1}

\* C14: a reply whose turn found the avatar disabled or without a connected
\* session ("unavailable"), or whose avatar speak call failed ("failed"), was
\* passed to tts.speak exactly once; a reply whose avatar speak call
\* succeeded ("ok"), or is still awaited, was not passed to tts.speak; and
\* tts.speak was called for nothing else.
C14_FallbackSpeaksOnce ==
    /\ \A t \in 1..Len(presented) :
          /\ presented[t].avatar \in {"unavailable", "failed"} => presented[t].ttsSpeaks = 1
          /\ presented[t].avatar \in {"ok", "pending", "none"} => presented[t].ttsSpeaks = 0
          /\ presented[t].ttsSpeaks = 1 => /\ presented[t].call \in 1..Len(speakCalls)
                                           /\ \A u \in 1..Len(presented) :
                                                 presented[u].call = presented[t].call => u = t
    /\ Len(speakCalls) = Cardinality(spokenTurns)

\* one turn's avatar speak call failed and its reply went to tts.speak once,
\* another turn's avatar speak call succeeded and tts.speak was not called
C14_Witness ==
    /\ useAvatar
    /\ \E t \in 1..Len(presented) : presented[t].avatar = "failed" /\ presented[t].ttsSpeaks = 1
    /\ \E t \in 1..Len(presented) : presented[t].avatar = "ok" /\ presented[t].ttsSpeaks = 0
    /\ Len(speakCalls) = 1

\* the speech output selector is presenting a reply: the speak call made for
\* some turn has called onStart, has not called onEnd, and its utterance is
\* being spoken
ttsPresenting ==
    \E t \in spokenTurns :
        /\ speakCalls[presented[t].call].onStart >= 1
        /\ speakCalls[presented[t].call].onEnd = 0
        /\ speakCalls[presented[t].call].utterance = "speaking"

\* the avatar is presenting a reply: a speak task it accepted has not ended
avatarPresenting == Len(avatarTasks) > 0

\* C15: while the speech output selector is presenting a reply, no avatar
\* signal (speaking_start, speaking_end) changes the talking state or
\* re-enables the controls, and while the avatar is presenting a reply no
\* onStart or onEnd callback of the speech output selector does.
C15_DriversNeverConcurrent ==
    [][ /\ (ttsPresenting /\ lastOp' \in {"avatar.start", "avatar.end"})
             => UNCHANGED << isTalking, uiDisabled >>
        /\ (avatarPresenting /\ (startFired \/ endFired))
             => UNCHANGED << isTalking, uiDisabled >> ]_vars

(***************************************************************************)
(* The text functions: truncateToMaxWords (backend) and cleanTextForTTS    *)
(***************************************************************************)
\* length of the texts, largest word limit
MaxLen == 5
MaxK == 2

\* characters of the texts: a letter, white space, a code point of a
\* stripped range
TextChars == {"a", " ", "\n", "U+1F389"}

RECURSIVE textsOfLen(_)
textsOfLen(n) ==
    IF n = 0 THEN { << >> }
    ELSE { << c >> \o t : c \in TextChars, t \in textsOfLen(n - 1) }

Texts == UNION { textsOfLen(n) : n \in 0..MaxLen }

\* index of the first white space character of t, Len(t) + 1 if there is none
RECURSIVE firstSpace(_, _)
firstSpace(t, i) ==
    IF i > Len(t) \/ t[i] \in SpaceChars THEN i ELSE firstSpace(t, i + 1)

\* index of the first character of t at or after i that is not white space
RECURSIVE firstNonSpace(_, _)
firstNonSpace(t, i) ==
    IF i > Len(t) \/ t[i] \notin SpaceChars THEN i ELSE firstNonSpace(t, i + 1)

\* text.split(/\s+/): the pieces between the runs of white space, the empty
\* pieces before a leading and after a trailing run included
RECURSIVE split(_)
split(t) ==
    LET i == firstSpace(t, 1)
    IN  IF i > Len(t) THEN << t >>
        ELSE << SubSeq(t, 1, i - 1) >> \o split(SubSeq(t, firstNonSpace(t, i), Len(t)))

\* words.join(' ')
RECURSIVE join(_)
join(words) ==
    IF words = << >> THEN << >>
    ELSE IF Len(words) = 1 THEN words[1]
    ELSE words[1] \o << " " >> \o join(Tail(words))

\* the words of a text: its maximal runs of characters that are not white space
RECURSIVE wordsOf(_)
wordsOf(t) ==
    LET s == trimStart(t)
        i == firstSpace(s, 1)
    IN  IF s = << >> THEN << >>
        ELSE << SubSeq(s, 1, i - 1) >> \o wordsOf(SubSeq(s, i, Len(s)))

Ellipsis == << ".", ".", "." >>

truncateToMaxWords(text, maxWords) ==
    LET words == split(text)
    IN  IF Len(words) <= maxWords THEN text
        ELSE join(SubSeq(words, 1, maxWords)) \o Ellipsis

(***************************************************************************)
(* The backend: middleware chain, rate limiter, /api/health and /api/chat  *)
(***************************************************************************)
MaxRequests == 5
\* handlers that await a vendor at the same time, chunks of one vendor stream
MaxPending == 1
MaxChunks == 2

\* max of the limiter
limiterMax == 3

\* MAX_RESPONSE_WORDS
MAX_RESPONSE_WORDS == 15

\* message of the limiter, and the body of the error-handling middleware
TooManyRequests == "Too many requests. Please wait a minute before asking another question."
SomethingWentWrong == "Something went wrong!"
InternalServerError == "Internal server error"

Routes == {"health", "chat", "tts", "ttsTimestamps", "heygenCreate", "heygenSpeak",
           "heygenClose", "heygenAvatars", "conversation"}
ChatRoutes == {"chat", "conversation"}
TtsRoutes == {"tts", "ttsTimestamps"}

\* the body of a request to a route: none (GET), not parsable as JSON or
\* above 10kb, or JSON with the fields the handler reads absent, of the
\* wrong shape, empty or present
bodiesOf(route) ==
    CASE route \in {"health", "heygenAvatars"} -> {"none"}
      [] route = "chat" -> {"unparsable", "noMessages", "messagesNotList", "emptyList", "valid"}
      [] route = "conversation" ->
             {"unparsable", "noMessages", "messagesNotList", "emptyList", "valid", "validAvatar"}
      [] route \in TtsRoutes -> {"unparsable", "noText", "emptyText", "valid"}
      [] route = "heygenCreate" -> {"unparsable", "valid"}
      [] route = "heygenSpeak" -> {"unparsable", "noSessionId", "noText", "emptyText", "valid"}
      [] route = "heygenClose" -> {"unparsable", "noSessionId", "valid"}

Bodies == UNION { bodiesOf(route) : route \in Routes }

\* the validation of a handler that tests text for the undefined value only
passesValidationUndefinedOnly(route, body) ==
    CASE route \in ChatRoutes -> body \notin {"noMessages", "messagesNotList"}
      [] route \in TtsRoutes -> body \notin {"noText"}
      [] route = "heygenSpeak" -> body \notin {"noSessionId", "noText"}
      [] route = "heygenClose" -> body # "noSessionId"
      [] OTHER -> TRUE

\* the validation at the head of each handler: !messages ||
\* !Array.isArray(messages), !text, !sessionId || !text, !sessionId
passesValidation(route, body) ==
    CASE route \in ChatRoutes -> body \notin {"noMessages", "messagesNotList"}
      [] route \in TtsRoutes -> body \notin {"noText", "emptyText"}
      [] route = "heygenSpeak" -> body \notin {"noSessionId", "noText", "emptyText"}
      [] route = "heygenClose" -> body # "noSessionId"
      [] OTHER -> TRUE

\* the message of the 400 answer of a route
validationError(route) ==
    CASE route \in ChatRoutes -> "Messages array is required"
      [] route \in TtsRoutes -> "Text is required"
      [] route = "heygenSpeak" -> "Session ID and text are required"
      [] route = "heygenClose" -> "Session ID is required"
      [] OTHER -> ""

\* a limiter that answers 429 from the max-th request on
exceedsFromMax(count) == count >= limiterMax

\* the limiter's test of the incremented count
exceeds(count) == count > limiterMax

\* the answer of the middleware chain and of the route handler to a request
\* whose incremented count is count (0 when the limiter is not reached):
\* cors and express.json pass their errors to the error-handling middleware
\* before the limiter runs; the limiter answers 429 without calling next;
\* otherwise the handler of the route runs: /api/health answers at once, the
\* others answer 400 when their validation fails and await the vendor
\* otherwise (status 0)
answer(route, body, originAllowed, count) ==
    IF ~originAllowed \/ body = "unparsable"
    THEN [status |-> 500, error |-> SomethingWentWrong, handlerRan |-> FALSE,
          vendorCalled |-> FALSE, kind |-> "failed"]
    ELSE IF exceeds(count)
    THEN [status |-> 429, error |-> TooManyRequests, handlerRan |-> FALSE,
          vendorCalled |-> FALSE, kind |-> "throttled"]
    ELSE IF route = "health"
    THEN [status |-> 200, error |-> "", handlerRan |-> TRUE, vendorCalled |-> FALSE,
          kind |-> "handled"]
    ELSE IF ~passesValidation(route, body)
    THEN [status |-> 400, error |-> validationError(route), handlerRan |-> TRUE,
          vendorCalled |-> FALSE, kind |-> "handled"]
    ELSE [status |-> 0, error |-> "", handlerRan |-> TRUE, vendorCalled |-> TRUE,
          kind |-> "handled"]

gatewayFrame == UNCHANGED << convVars, ttsVars, pageVars, textVars >>

\* a request to a route arrives from client c
GatewayRequest(c, route, body, originAllowed) ==
    /\ gwRequests < MaxRequests
    /\ body \in bodiesOf(route)
    /\ LET counted == originAllowed /\ body # "unparsable"
           count == IF counted THEN hits[c] + 1 ELSE 0
           a == answer(route, body, originAllowed, count)
       IN  /\ a.vendorCalled => Len(gwPending) < MaxPending
           /\ hits' = IF counted THEN [hits EXCEPT ![c] = count] ELSE hits
           /\ windowLog' = [windowLog EXCEPT ![c] = Append(@, a.kind)]
           /\ gwPending' = IF a.vendorCalled
                           THEN Append(gwPending, [client |-> c, route |-> route, body |-> body,
                                                   stage |-> "vendor", response |-> << >>,
                                                   vendorText |-> << >>,
                                                   received |-> << >>, written |-> << >>])
                           ELSE gwPending
           /\ lastRequest' = [client |-> c, route |-> route, body |-> body,
                              n |-> Len(windowLog[c]) + 1, count |-> count, status |-> a.status,
                              error |-> a.error, handlerRan |-> a.handlerRan,
                              vendorCalled |-> a.vendorCalled]
    /\ gwRequests' = gwRequests + 1
    /\ lastOp' = "gateway.request"
    /\ lastAnswer' = NoAnswer
    /\ gatewayFrame

\* a text of n words 'a' separated by single spaces
RECURSIVE wordsText(_)
wordsText(n) ==
    IF n = 0 THEN << >>
    ELSE IF n = 1 THEN << "a" >> ELSE << "a", " " >> \o wordsText(n - 1)

\* reply texts of the chat vendor (choices[0].message.content)
VendorTexts ==
    { << >>, wordsText(1), << "a", " ", " ", "a" >>, wordsText(MAX_RESPONSE_WORDS),
      wordsText(MAX_RESPONSE_WORDS + 1), wordsText(MAX_RESPONSE_WORDS + 2),
      wordsText(MAX_RESPONSE_WORDS) \o << "\n" >>, << " " >> \o wordsText(MAX_RESPONSE_WORDS) }

\* statuses of a vendor's non-2xx answers, and what their bodies are: a JSON
\* object holding the message the handler looks up, another JSON object,
\* the JSON value null, not JSON
VendorStatuses == {401, 429}
VendorErrorBodies == {"message", "object", "null", "notJson"}

\* what the fetch to a vendor gives: an answer (2xx or not) or a rejection
VendorReplies ==
    { [kind |-> "ok", status |-> 200, body |-> "json", text |-> t] : t \in VendorTexts }
    \cup { [kind |-> "http", status |-> st, body |-> b, text |-> << >>] :
             st \in VendorStatuses, b \in VendorErrorBodies }
    \cup { [kind |-> "network", status |-> 0, body |-> "", text |-> << >>] }

NoResponse == << "N", "o", " ", "r", "e", "s", "p", "o", "n", "s", "e", " ",
                 "g", "e", "n", "e", "r", "a", "t", "e", "d", "." >>

\* the default message of a route's vendor error branch
defaultError(route) ==
    CASE route = "chat" -> "API error"
      [] route = "conversation" -> "Chat API error"
      [] route \in TtsRoutes -> "TTS API error"
      [] OTHER -> "HeyGen API error"

\* the vendor error branch: the chat routes parse the body without a catch,
\* the others with .catch(() => ({})); reading a field of null throws; what
\* is thrown reaches the catch of the handler
vendorErrorAnswer(route, r) ==
    IF r.body = "null" \/ (r.body = "notJson" /\ route \in ChatRoutes)
    THEN [status |-> 500, error |-> InternalServerError]
    ELSE [status |-> r.status,
          error |-> IF r.body = "message" THEN "vendor message" ELSE defaultError(route)]

\* the answer a handler has sent, as the caller sees it
answered(p, r, status, error, response) ==
    [route |-> p.route, body |-> p.body, vendor |-> r.kind, vendorStatus |-> r.status,
     vendorBody |-> r.body, vendorText |-> r.text, second |-> "none", failedAt |-> "vendor",
     status |-> status, error |-> error, response |-> response, sent |-> 1, ends |-> 1,
     threw |-> FALSE, chunksIn |-> << >>, chunksOut |-> << >>,
     secondBody |-> "", useAvatar |-> "absent"]

\* the fetch of the handler of pending request i settles with r and the
\* handler runs on to its answer or to its next await
GatewayVendorSettles(i, r) ==
    /\ i \in 1..Len(gwPending)
    /\ gwPending[i].stage = "vendor"
    /\ r.kind = "ok" /\ gwPending[i].route \notin ChatRoutes => r.text = << >>
    /\ LET p == gwPending[i]
           e == vendorErrorAnswer(p.route, r)
           responseText == truncateToMaxWords(IF r.text = << >> THEN NoResponse ELSE r.text,
                                              MAX_RESPONSE_WORDS)
       IN  CASE r.kind = "network" ->
                  /\ lastAnswer' = answered(p, r, 500, InternalServerError, << >>)
                  /\ gwPending' = RemoveAt(gwPending, i)
             [] r.kind = "http" ->
                  /\ lastAnswer' = answered(p, r, e.status, e.error, << >>)
                  /\ gwPending' = RemoveAt(gwPending, i)
             [] r.kind = "ok" /\ p.route = "tts" ->
                  /\ gwPending' = [gwPending EXCEPT ![i].stage = "stream"]
                  /\ UNCHANGED lastAnswer
             [] r.kind = "ok" /\ p.route = "conversation" /\ p.body = "validAvatar" ->
                  /\ gwPending' = [gwPending EXCEPT ![i].stage = "avatar",
                                                    ![i].response = responseText,
                                                    ![i].vendorText = r.text]
                  /\ UNCHANGED lastAnswer
             [] r.kind = "ok" /\ p.route \in ChatRoutes ->
                  /\ lastAnswer' = [answered(p, r, 200, "", responseText) EXCEPT
                         !.useAvatar = IF p.route = "conversation" THEN "false" ELSE @]
                  /\ gwPending' = RemoveAt(gwPending, i)
             [] OTHER ->
                  /\ lastAnswer' = answered(p, r, 200, "", << >>)
                  /\ gwPending' = RemoveAt(gwPending, i)
    /\ lastOp' = "gateway.vendor"
    /\ UNCHANGED << hits, windowLog, gwRequests, lastRequest >>
    /\ gatewayFrame

\* await speakResponse.json() and speakData.data?.task_id: a rejected fetch,
\* a body that is not JSON and the JSON value null throw into the inner catch
avatarStepThrows(r) == r.kind = "network" \/ r.body \in {"notJson", "null"}

\* /api/conversation, step 2: the fetch to the avatar vendor settles.  Its
\* status is not tested; a rejection or an unparsable body is caught and the
\* handler answers without the avatar
GatewayAvatarSettles(i, r) ==
    /\ i \in 1..Len(gwPending)
    /\ gwPending[i].stage = "avatar"
    /\ r.text = << >>
    /\ LET p == gwPending[i]
           first == [kind |-> "ok", status |-> 200, body |-> "json", text |-> p.vendorText]
       IN  lastAnswer' = [answered(p, first, 200, "", p.response)
                             EXCEPT !.second = r.kind, !.failedAt = "avatar",
                                    !.secondBody = r.body,
                                    !.useAvatar = IF avatarStepThrows(r) THEN "false" ELSE "true"]
    /\ gwPending' = RemoveAt(gwPending, i)
    /\ lastOp' = "gateway.avatar"
    /\ UNCHANGED << hits, windowLog, gwRequests, lastRequest >>
    /\ gatewayFrame

Chunks == {"x", "y"}

\* what reader.read() gives: a chunk, the end of the stream, a rejection
StreamEvents ==
    { [kind |-> "chunk", value |-> c] : c \in Chunks }
    \cup { [kind |-> "done", value |-> ""], [kind |-> "error", value |-> ""] }

\* a stream loop that collects the chunks and writes them when the stream is done
GatewayStreamReadBuffered(i, ev) ==
    /\ i \in 1..Len(gwPending)
    /\ gwPending[i].stage = "stream"
    /\ ev.kind # "error"
    /\ LET p == gwPending[i]
           ok == [kind |-> "ok", status |-> 200, body |-> "stream", text |-> << >>]
       IN  IF ev.kind = "chunk"
           THEN /\ Len(p.received) < MaxChunks
                /\ gwPending' = [gwPending EXCEPT ![i].received = Append(@, ev.value)]
                /\ UNCHANGED lastAnswer
           ELSE /\ gwPending' = RemoveAt(gwPending, i)
                /\ lastAnswer' = [answered(p, ok, 200, "", << >>)
                                     EXCEPT !.chunksIn = p.received, !.chunksOut = p.received,
                                            !.failedAt = "none"]
    /\ lastOp' = "gateway.stream"
    /\ UNCHANGED << hits, windowLog, gwRequests, lastRequest >>
    /\ gatewayFrame

\* the stream loop of /api/tts/elevenlabs resumes from await reader.read():
\* a chunk is written and the next read is awaited; at the end of the stream
\* the response is ended; a rejection reaches the catch of the handler, whose
\* res.status(500).json(...) throws once the first write has sent the headers
GatewayStreamRead(i, ev) ==
    /\ i \in 1..Len(gwPending)
    /\ gwPending[i].stage = "stream"
    /\ LET p == gwPending[i]
           ok == [kind |-> "ok", status |-> 200, body |-> "stream", text |-> << >>]
       IN  CASE ev.kind = "chunk" ->
                  /\ Len(p.received) < MaxChunks
                  /\ gwPending' = [gwPending EXCEPT ![i].received = Append(@, ev.value),
                                                    ![i].written = Append(@, ev.value)]
                  /\ UNCHANGED lastAnswer
             [] ev.kind = "done" ->
                  /\ gwPending' = RemoveAt(gwPending, i)
                  /\ lastAnswer' = [answered(p, ok, 200, "", << >>)
                                       EXCEPT !.chunksIn = p.received, !.chunksOut = p.written,
                                              !.failedAt = "none"]
             [] ev.kind = "error" ->
                  /\ gwPending' = RemoveAt(gwPending, i)
                  /\ lastAnswer' =
                        IF p.written = << >>
                        THEN [answered(p, ok, 500, InternalServerError, << >>)
                                 EXCEPT !.vendor = "network", !.failedAt = "stream"]
                        ELSE [answered(p, ok, 200, "", << >>)
                                 EXCEPT !.vendor = "network", !.failedAt = "stream",
                                        !.chunksIn = p.received, !.chunksOut = p.written,
                                        !.ends = 0, !.threw = TRUE]
    /\ lastOp' = "gateway.stream"
    /\ UNCHANGED << hits, windowLog, gwRequests, lastRequest >>
    /\ gatewayFrame

\* windowMs after the first counted request of client c its count is reset
GatewayWindowExpires(c) ==
    /\ hits[c] > 0
    /\ hits' = [hits EXCEPT ![c] = 0]
    /\ windowLog' = [windowLog EXCEPT ![c] = << >>]
    /\ lastOp' = "gateway.window"
    /\ UNCHANGED << gwRequests, gwPending, lastRequest, lastAnswer >>
    /\ gatewayFrame

\* the limiter seen from two clients, on /api/health and /api/chat
GwRequest ==
    \E c \in Clients, route \in {"health", "chat"},
       body \in {"none", "unparsable", "noMessages", "valid"}, originAllowed \in BOOLEAN :
        GatewayRequest(c, route, body, originAllowed)
GwVendor ==
    \E i \in 1..Len(gwPending) :
        GatewayVendorSettles(i, [kind |-> "network", status |-> 0, body |-> "", text |-> << >>])
GwWindow == \E c \in Clients : GatewayWindowExpires(c)

InitGateway == ConvInitFrom({NoItem}) /\ TtsIdle /\ AppInit

NextGateway == GwRequest \/ GwVendor \/ GwWindow

SpecGateway == InitGateway /\ [][NextGateway]_vars

(***************************************************************************)
(* The route handlers, seen from one client                                *)
(***************************************************************************)
RelayRequest ==
    \E route \in Routes, body \in Bodies : GatewayRequest("c1", route, body, TRUE)
RelayVendor ==
    \E i \in 1..Len(gwPending), r \in VendorReplies : GatewayVendorSettles(i, r)
RelayAvatar ==
    \E i \in 1..Len(gwPending), r \in VendorReplies : GatewayAvatarSettles(i, r)
RelayStream ==
    \E i \in 1..Len(gwPending), ev \in StreamEvents : GatewayStreamRead(i, ev)

NextRelay == RelayRequest \/ RelayVendor \/ RelayAvatar \/ RelayStream

SpecRelay == InitGateway /\ [][NextRelay]_vars

(***************************************************************************)
(* Properties of the route handlers, checked under SpecRelay               *)
(***************************************************************************)
\* a request to route with this body lacks a field the route requires
lacksRequiredField(route, body) ==
    \/ route \in ChatRoutes /\ body \in {"noMessages", "messagesNotList"}
    \/ route \in TtsRoutes /\ body \in {"noText", "emptyText"}
    \/ route = "heygenSpeak" /\ body \in {"noSessionId", "noText"}
    \/ route = "heygenClose" /\ body = "noSessionId"

C23_EmptyListIs400 ==
    (lastRequest.handlerRan /\ lastRequest.route \in ChatRoutes
        /\ lastRequest.body = "emptyList") =>
        (lastRequest.status = 400 /\ ~lastRequest.vendorCalled)

\* C24: when the vendor answers the primary call of a route with a non-2xx
\* status s, the gateway answers the caller with status s and an error
\* message, whatever the body of the vendor's answer is (a JSON object or
\* not JSON at all; the JSON value null is left aside here).
C24_VendorStatusRelayed ==
    (lastAnswer.vendor = "http" /\ lastAnswer.failedAt = "vendor"
        /\ lastAnswer.vendorBody # "null") =>
        (lastAnswer.status = lastAnswer.vendorStatus /\ lastAnswer.error # "")

\* C25: when the primary vendor call of a request fails with a transport
\* error, before the vendor answers or in the middle of the streamed body,
\* the caller receives one response, with status 500 and the message
\* 'Internal server error'.
C25_TransportErrorIs500 ==
    (lastAnswer.vendor = "network" /\ lastAnswer.failedAt \in {"vendor", "stream"}) =>
        /\ lastAnswer.sent = 1 /\ ~lastAnswer.threw
        /\ lastAnswer.status = 500
        /\ lastAnswer.error = InternalServerError

\* C27: the response field of a successful answer of /api/chat and
\* /api/conversation has at most MAX_RESPONSE_WORDS words, and it is the
\* vendor's text whenever that text (not empty) has at most that many words.
C27_WordCap ==
    (lastAnswer.route \in ChatRoutes /\ lastAnswer.status = 200) =>
        /\ Len(wordsOf(lastAnswer.response)) <= MAX_RESPONSE_WORDS
        /\ (lastAnswer.vendorText # << >>
              /\ Len(wordsOf(lastAnswer.vendorText)) <= MAX_RESPONSE_WORDS)
             => lastAnswer.response = lastAnswer.vendorText

\* C29: while /api/tts/elevenlabs streams, every chunk read from the vendor
\* has been written to the caller, in the order read; when the vendor's
\* stream is done the caller has received the chunks of the vendor, in order,
\* none dropped, duplicated or merged, and the response was ended once.
C29_ChunkForChunk ==
    /\ \A i \in 1..Len(gwPending) :
          gwPending[i].stage = "stream" => gwPending[i].written = gwPending[i].received
    /\ (lastAnswer.route = "tts" /\ lastAnswer.status = 200 /\ lastAnswer.vendor = "ok") =>
          (lastAnswer.chunksOut = lastAnswer.chunksIn /\ lastAnswer.ends = 1)

\* a stream of two different chunks was relayed and ended
C29_Witness ==
    /\ lastAnswer.route = "tts" /\ lastAnswer.vendor = "ok" /\ lastAnswer.ends = 1
    /\ lastAnswer.chunksIn = << "x", "y" >>
    /\ lastAnswer.chunksOut = << "x", "y" >>

\* C36: when the avatar step of /api/conversation has run, the chat reply is
\* returned with status 200, and useAvatar is true exactly when the avatar
\* vendor answered 2xx: after a transport error and after a non-2xx status
\* it is false.
C36_AvatarFlagOnlyWhenAccepted ==
    (lastAnswer.route = "conversation" /\ lastAnswer.failedAt = "avatar")
       => /\ lastAnswer.status = 200
          /\ lastAnswer.response # << >>
          /\ lastAnswer.useAvatar = (IF lastAnswer.second = "ok" THEN "true" ELSE "false")

(***************************************************************************)
(* Properties of the backend, checked under SpecGateway                    *)
(***************************************************************************)
\* the last request was answered by the limiter
throttled ==
    /\ lastRequest.status = 429
    /\ lastRequest.error = TooManyRequests
    /\ ~lastRequest.handlerRan
    /\ ~lastRequest.vendorCalled

\* C19: of the requests a client sends to /api/* in one window, the first 3
\* reach their handlers (unless the middleware chain fails them on their own
\* merits) and every later one is answered with the throttling body, without
\* the handler running or a vendor being contacted, whatever its payload.
C19_FirstThreeHandledRestThrottled ==
    /\ (lastRequest.n \in 1..3 /\ lastRequest.error # SomethingWentWrong)
          => lastRequest.handlerRan
    /\ lastRequest.n > 3 => throttled

InitText ==
    /\ ConvInitFrom({NoItem}) /\ TtsIdle /\ AppFlagsInit /\ GatewayInit
    /\ idleEnabled = FALSE /\ CharInit /\ AvatarInit(FALSE)
    /\ fnText \in Texts
    /\ fnResult = [op |-> "none", k |-> 0, out |-> << >>]

textFrame == UNCHANGED << convVars, ttsVars, pageVars, gatewayVars, fnText >>

\* truncateToMaxWords(fnText, k)
TextTruncate ==
    /\ \E k \in 1..MaxK :
          fnResult' = [op |-> "truncateToMaxWords", k |-> k, out |-> truncateToMaxWords(fnText, k)]
    /\ lastOp' = "truncateToMaxWords"
    /\ textFrame

\* the first statements of speak: cleanText = this.cleanTextForTTS(text)
TextClean ==
    /\ fnResult' = [op |-> "cleanTextForTTS", k |-> 0, out |-> cleanTextForTTS(fnText)]
    /\ lastOp' = "cleanTextForTTS"
    /\ textFrame

NextText == TextTruncate \/ TextClean

SpecText == InitText /\ [][NextText]_vars

(***************************************************************************)
(* Properties of the text functions, checked under SpecText                *)
(***************************************************************************)
\* C26: truncateToMaxWords(text, k) returns text unchanged if text has at
\* most k words, and otherwise the first k words of text joined by single
\* spaces and followed by '...'; also for texts with leading, trailing or
\* repeated white space.
C26_TruncateToMaxWords ==
    fnResult.op = "truncateToMaxWords" =>
        LET w == wordsOf(fnText)
        IN  IF Len(w) <= fnResult.k
            THEN fnResult.out = fnText
            ELSE fnResult.out = join(SubSeq(w, 1, fnResult.k)) \o Ellipsis

\* C28: the cleaned text holds no code point of the stripped ranges, no
\* white space but single spaces between other characters, the other
\* characters of the text in their order, and cleaning it again returns it.
C28_CleanTextForTTS ==
    fnResult.op = "cleanTextForTTS" =>
        LET out == fnResult.out
        IN  /\ \A i \in 1..Len(out) : out[i] \notin EmojiChars /\ out[i] # "\n"
            /\ \A i \in 1..Len(out) - 1 : ~(out[i] = " " /\ out[i + 1] = " ")
            /\ out # << >> => (out[1] # " " /\ out[Len(out)] # " ")
            /\ SelectSeq(out, LAMBDA c : c # " ")
                  = SelectSeq(fnText, LAMBDA c : c \notin EmojiChars \cup SpaceChars)
            /\ wordsOf(out) = wordsOf(stripEmoji(fnText))
            /\ cleanTextForTTS(out) = out
            /\ cleanTextForTTS(<< "T", "e", "s", "t", " ", "U+1F389", " ", "m", "e", "s", "s", "a", "g", "e", "!", "!" >>)
                  = << "T", "e", "s", "t", " ", "m", "e", "s", "s", "a", "g", "e", "!", "!" >>

\* a text with a stripped code point between two spaces inside it was cleaned
C28_Witness ==
    /\ fnResult.op = "cleanTextForTTS"
    /\ \E i \in 2..Len(fnText) - 3 :
          /\ fnText[i - 1] = "a" /\ fnText[i] = " " /\ fnText[i + 1] = "U+1F389"
          /\ fnText[i + 2] = " " /\ fnText[i + 3] = "a"
    /\ fnResult.out = << "a", " ", "a" >>

(***************************************************************************)
(* The CharacterController under any sequence of its calls                 *)
(***************************************************************************)
InitChar ==
    /\ ConvInitFrom({NoItem})
    /\ TtsIdle
    /\ AppFlagsInit
    /\ idleEnabled \in BOOLEAN
    /\ CharInit
    /\ AvatarInit(FALSE)
    /\ GatewayInit
    /\ TextIdle

charFrame == UNCHANGED << convVars, ttsVars, appIsProcessing, uiDisabled,
                          stopSpeechBtnDisabled, activeTurns, turnCount, avatarVars, gatewayVars, textVars >>

\* speech begins: the onStart callback or the avatar's speaking-start signal
CharStartTalking ==
    /\ setCharacter(startTalking(charState))
    /\ lastOp' = "startTalking"
    /\ UNCHANGED loading /\ charFrame

\* the end signal: the onEnd callback, the avatar's speaking-end signal, stopSpeech
CharStopTalking ==
    /\ staleTimers < MaxTimers
    /\ setCharacter(stopTalking(charState))
    /\ lastOp' = "stopTalking"
    /\ UNCHANGED loading /\ charFrame

CharIdleTimer ==
    IdleTimerFires /\ lastOp' = "idleTimer" /\ UNCHANGED loading /\ charFrame
CharStaleTimer ==
    StaleTimerFires /\ lastOp' = "idleTimer" /\ UNCHANGED loading /\ charFrame

\* showLoading / hideLoading
CharShowLoading ==
    loading' = TRUE /\ lastOp' = "showLoading" /\ UNCHANGED << isTalking, charVars >> /\ charFrame
CharHideLoading ==
    loading' = FALSE /\ lastOp' = "hideLoading" /\ UNCHANGED << isTalking, charVars >> /\ charFrame

NextChar ==
    \/ CharStartTalking \/ CharStopTalking \/ CharIdleTimer \/ CharStaleTimer
    \/ CharShowLoading \/ CharHideLoading

SpecChar == InitChar /\ [][NextChar]_vars

(***************************************************************************)
(* Properties of the ConversationController, checked under SpecConv        *)
(***************************************************************************)
Last(s) == s[Len(s)]

\* C2: a sendMessage call made while an earlier call is unresolved throws at
\* once and changes nothing: history, stored transcript and outstanding
\* request stay as they were and the processing flag stays set; the flag is
\* cleared only by the step in which the in-flight call itself settles (or
\* when the page, and with it the controller, is discarded).
C2_RejectedCallChangesNothing ==
    /\ [][ lastOp' = "sendMessage.rejected" =>
             /\ isProcessing
             /\ lastResult'.kind = "rejected"
             /\ conversationHistory' = conversationHistory
             /\ storage' = storage
             /\ chatRequests' = chatRequests
             /\ isProcessing' ]_vars
    /\ [][ (isProcessing /\ ~isProcessing') =>
             \/ lastOp' = "sendMessage.settled" /\ Len(chatRequests') < Len(chatRequests)
             \/ reloads' # reloads ]_vars

C2_Witness ==
    /\ lastOp = "sendMessage.rejected"
    /\ lastResult.kind = "rejected"
    /\ isProcessing
    /\ Len(chatRequests) = 1

\* C3: the history never holds more than maxHistoryMessages messages, after
\* any sequence of appends and clears.
C3_HistoryBounded == Len(conversationHistory) <= maxHistoryMessages

C3_Witness ==
    /\ lastOp \in {"sendMessage", "sendMessage.settled"}
    /\ Len(appendLog) = maxHistoryMessages + 1
    /\ Len(conversationHistory) = maxHistoryMessages

\* C4: eviction is FIFO: the history is always the most recently appended
\* messages (at most maxHistoryMessages of them), in insertion order, the
\* newest last; only the oldest are missing.
C4_FifoEviction ==
    LET dropped == Len(appendLog) - Len(conversationHistory)
    IN  /\ dropped >= 0
        /\ Len(conversationHistory) =
              (IF Len(appendLog) < maxHistoryMessages THEN Len(appendLog) ELSE maxHistoryMessages)
        /\ \A i \in 1..Len(conversationHistory) : conversationHistory[i] = appendLog[dropped + i]

C4_Witness ==
    /\ Len(appendLog) >= maxHistoryMessages + 2
    /\ conversationHistory[1] = appendLog[Len(appendLog) - maxHistoryMessages + 1]
    /\ Last(conversationHistory) = Last(appendLog)
    /\ Last(conversationHistory).timestamp >= StartClock

\* C5: when the chat relay fails (non-2xx status or transport error) the
\* sendMessage call resolves with one of the fallback lines, the processing
\* flag is cleared, and the turn appended exactly two messages: the user's
\* text, then that fallback line as the assistant message.
C5_RelayFailureIsSoftSuccess ==
    (lastOp = "sendMessage.settled" /\ lastResult.outcome # "ok") =>
        /\ lastResult.kind = "resolved"
        /\ lastResult.value \in Range(fallbackResponses)
        /\ ~isProcessing
        /\ lastResult.appended =
              << [role |-> "user", content |-> lastResult.arg],
                 [role |-> "assistant", content |-> lastResult.value] >>
        /\ Len(conversationHistory) >= 1
        /\ Last(conversationHistory).role = "assistant"
        /\ Last(conversationHistory).content = lastResult.value

C5_Witness ==
    /\ lastOp = "sendMessage.settled"
    /\ lastResult.outcome = "http429"
    /\ lastResult.kind = "resolved"
    /\ lastResult.value = fallbackResponses[3]
    /\ Len(lastResult.appended) = 2

\* C6: right after every mutation of the history (either append of a turn,
\* or a clear) whose storage write succeeded, the stored item is the JSON
\* text of the in-memory history.
C6_PersistedAfterEveryMutation ==
    (lastOp \in {"sendMessage", "sendMessage.settled", "clearHistory"} /\ saveStatus = "ok") =>
        /\ storage.kind = "json"
        /\ Len(storage.text) = Len(conversationHistory)
        /\ \A i \in 1..Len(conversationHistory) :
              storage.text[i] = << conversationHistory[i].role,
                                   conversationHistory[i].content,
                                   conversationHistory[i].timestamp >>

C6_Witness ==
    /\ lastOp = "clearHistory"
    /\ saveStatus = "ok"
    /\ storage.kind = "json"
    /\ storage.text = << >>
    /\ appends >= 2

C8_TurnOrder ==
    /\ [](\A i \in 1..Len(chatRequests) :
             /\ Len(chatRequests[i].messages) >= 1
             /\ Last(chatRequests[i].messages) =
                   [role |-> "user", content |-> chatRequests[i].arg])
    /\ [](lastOp = "sendMessage" =>
             /\ Len(chatRequests) >= 1
             /\ Last(chatRequests).messages = apiMessages(conversationHistory)
             /\ Last(conversationHistory).role = "user"
             /\ Last(conversationHistory).content = Last(chatRequests).arg)
    /\ [](lastOp = "sendMessage.settled" /\ lastResult.kind = "resolved" =>
             /\ Last(conversationHistory).role = "assistant"
             /\ Last(conversationHistory).content = lastResult.value)
    /\ [][ (appends' # appends /\ Last(appendLog').role = "assistant") =>
             /\ Len(chatRequests') < Len(chatRequests)
             /\ lastResult'.kind = "resolved" ]_vars

C8_Witness ==
    /\ lastOp = "sendMessage.settled"
    /\ lastResult.kind = "resolved"
    /\ lastResult.outcome = "ok"
    /\ lastResult.value \in Replies
    /\ Len(conversationHistory) >= 2
    /\ conversationHistory[Len(conversationHistory) - 1].role = "user"
    /\ Last(conversationHistory).content = lastResult.value
\* the roles of a message list alternate, beginning with a user message
alternates(h) ==
    \A i \in 1..Len(h) : h[i].role = (IF i % 2 = 1 THEN "user" ELSE "assistant")

\* C37: in every reachable state the history alternates roles beginning
\* with a user message, so every assistant message follows the user message
\* it answers, and every message list sent to the chat relay starts with a
\* user message.
C37_HistoryAlternates ==
    /\ alternates(conversationHistory)
    /\ \A i \in 1..Len(chatRequests) :
          chatRequests[i].messages # << >> => chatRequests[i].messages[1].role = "user"

(***************************************************************************)
(* Properties of the turn, checked under Spec                              *)
(***************************************************************************)
\* C1: at most one turn is processing.  In every reachable state at most one
\* chat request is outstanding and at most one processMessage activation is
\* under way, and an outstanding request belongs to a turn for which both
\* processing flags are set; a turn is started only when none is processing,
\* and a submit that arrives meanwhile is refused without queuing anything.
C1_AtMostOneTurn ==
    /\ [](/\ Len(chatRequests) <= 1
          /\ Len(activeTurns) <= 1
          /\ Len(chatRequests) = 1 =>
                /\ isProcessing
                /\ appIsProcessing
                /\ Len(activeTurns) = 1
                /\ activeTurns[1].pc = "chat"
                /\ activeTurns[1].id = chatRequests[1].turn)
    /\ [][ turnCount' # turnCount =>
             /\ ~appIsProcessing
             /\ ~isProcessing
             /\ chatRequests = << >>
             /\ activeTurns = << >> ]_vars
    /\ [][ lastOp' = "submit.refused" =>
             /\ appIsProcessing
             /\ UNCHANGED << chatRequests, activeTurns, turnCount, conversationHistory,
                             storage, isProcessing, appIsProcessing >> ]_vars

C1_Witness ==
    /\ lastOp = "submit.refused"
    /\ Len(chatRequests) = 1
    /\ appIsProcessing
    /\ isProcessing
    /\ turnCount = 1

\* C16 (as stated): while the chat request of a turn is outstanding the
\* input controls are disabled.
C16_ControlsDisabledWhileCallOutstanding ==
    chatRequests # << >> => uiDisabled

\* C17: stopSpeech performed while a chat request is outstanding leaves the
\* request, both processing flags, the turn, the history and the stored
\* transcript as they were; the request then settles as it would have: the
\* reply is appended as the last message of the history and handed to the
\* turn, and the flag of the ConversationController is cleared.
C17_StopLeavesChatRequest ==
    /\ [][ (lastOp' = "stop" /\ chatRequests # << >>) =>
             /\ UNCHANGED << chatRequests, isProcessing, appIsProcessing, activeTurns,
                             conversationHistory, storage, loading >>
             /\ isProcessing /\ appIsProcessing ]_vars
    /\ [](( lastOp = "sendMessage.settled" /\ lastResult.stopsDuring > 0) =>
             /\ lastResult.kind = "resolved"
             /\ Len(lastResult.appended) = 2
             /\ Len(conversationHistory) >= 1
             /\ Last(conversationHistory).role = "assistant"
             /\ Last(conversationHistory).content = lastResult.value
             /\ ~isProcessing
             /\ \E k \in 1..Len(activeTurns) :
                    /\ activeTurns[k].pc = "bubble"
                    /\ activeTurns[k].response = lastResult.value)

C17_Witness ==
    /\ lastOp = "sendMessage.settled"
    /\ lastResult.stopsDuring >= 1
    /\ lastResult.kind = "resolved"
    /\ Last(conversationHistory).content = lastResult.value
    /\ turnCount = 2

\* C18 (as stated): from the user append of a turn to its assistant append
\* nothing else writes the history or the stored transcript.
C18_SingleWriter ==
    [][ (isProcessing /\ isProcessing') =>
          UNCHANGED << conversationHistory, storage >> ]_vars

\* the last speak call has been stopped: stop() ran after it was made
lastCallStopped ==
    speakCalls # << >> /\ stops > speakCalls[Len(speakCalls)].stopsAtCall

\* the audio element starts to play
audioStarts ==
    /\ audioPlayer'.state \in {"starting", "playing"}
    /\ audioPlayer'.state # audioPlayer.state

\* C32: once stop speech has run, and until the next speak call, no step
\* other than a further stop starts the audio or invokes onStart or onEnd,
\* also when the fetch of the stopped call settles after the stop.
C32_StoppedUtteranceIsSilent ==
    [][(lastCallStopped /\ Len(speakCalls') = Len(speakCalls) /\ stops' = stops)
          => ~startFired /\ ~endFired /\ ~audioStarts]_vars

(***************************************************************************)
(* Properties of the TTSController, checked under SpecTTS                  *)
(***************************************************************************)
\* C9: a speak call whose provider is elevenlabs or openai starts the provider
\* first; when its fetch fails (non-2xx or transport error) it starts the
\* browser producer exactly once, with the same cleaned text; it never starts
\* more than two producers, and none but the provider when the fetch succeeds.
C9_OneFallbackToBrowser ==
    \A id \in 1..Len(speakCalls) :
        LET c == speakCalls[id]
            remote == [name |-> c.provider, text |-> cleanTextForTTS(c.raw)]
            browser == [name |-> "browser", text |-> cleanTextForTTS(c.raw)]
        IN  c.provider \in {"elevenlabs", "openai"} =>
              /\ Len(c.producers) <= 2
              /\ c.primary \in {"pending", "ok"} => c.producers = << remote >>
              /\ c.primary \in {"http", "network"} => c.producers = << remote, browser >>

C9_Witness ==
    \E id \in 1..Len(speakCalls) :
        /\ speakCalls[id].provider = "elevenlabs"
        /\ speakCalls[id].primary = "http"
        /\ Len(speakCalls[id].producers) = 2
        /\ speakCalls[id].utterance = "speaking"
        /\ Len(speakCalls[id].text) < Len(speakCalls[id].raw)

\* C10 (as stated): when the browser producer fails, as primary or as
\* fallback, the failure is reported through the error callback and onEnd is
\* not invoked for that call.
C10_BrowserFailureReportedWithoutOnEnd ==
    \A id \in 1..Len(speakCalls) :
        speakCalls[id].localFailed =>
            /\ speakCalls[id].errorCallback >= 1
            /\ speakCalls[id].onEnd = 0

(***************************************************************************)
(* Properties of the CharacterController, checked under SpecChar           *)
(***************************************************************************)
\* C13 (as stated): the character is talking after speech begins and not
\* talking after the end signal, and when the idle delay has elapsed after
\* an end signal with no new speech begun, the character is idle again (and
\* shows the idle animation where that is enabled).
C13_IdleRestoredAfterDelay ==
    /\ lastOp = "startTalking" => (isTalking /\ ~isIdle)
    /\ lastOp = "stopTalking" => ~isTalking
    /\ (lastOp = "idleTimer" /\ ~isTalking) =>
          (isIdle /\ (idleEnabled => "idle" \in classList))

\* C11 (as stated): every speak call receives onStart at most once and is
\* terminated by one notification only (onEnd, which the error handler
\* onAudioError invokes too), never repeated, and an onEnd that reports no
\* error never comes before onStart, whatever playback events, pause, resume
\* and stop follow.
C11_OneStartOneTermination ==
    \A id \in 1..Len(speakCalls) :
        /\ speakCalls[id].onStart <= 1
        /\ speakCalls[id].onEnd <= 1
        /\ speakCalls[id].errorCallback <= 1
        /\ (speakCalls[id].onEnd >= 1 /\ speakCalls[id].errorCallback = 0) =>
               speakCalls[id].onStart >= 1

\* C12 (as stated): a stop() that follows a stop() at once leaves playing
\* flag, current utterance and player as the first stop() left them and does
\* not invoke onEnd again.
C12_StopIdempotent ==
    [][ (lastOp = "stop" /\ lastOp' = "stop" /\ stops' = stops + 1) =>
          /\ isPlaying' = isPlaying
          /\ currentUtterance' = currentUtterance
          /\ audioPlayer' = audioPlayer
          /\ \A id \in 1..Len(speakCalls) : speakCalls'[id].onEnd = speakCalls[id].onEnd ]_vars

(***************************************************************************)
(* The idle timers of the CharacterController, checked under SpecChar      *)
(***************************************************************************)
\* C33: with the idle animation enabled the character is never talking and
\* idle at once, whatever the order of startTalking, stopTalking and the
\* firing of the idle timers.
C33_NeverTalkingAndIdle == idleEnabled => ~(isTalking /\ isIdle)

=============================================================================
